---------------------------- MODULE Spec2Model ----------------------------
(***************************************************************************)
(* A model of the SQL parser of src/sql.go: the cursor (peek / pop), the   *)
(* finite-state-machine driver (doParse, parseWhere), the validator and    *)
(* the two entry points Parse and ParseMany.                               *)
(*                                                                         *)
(* A Go string is modelled as a sequence of one-character strings, and a   *)
(* Go index (0-based) is kept 0-based: At(s, i) is s[i], Slice(s, a, b) is *)
(* s[a:b].                                                                 *)
(***************************************************************************)
EXTENDS Integers, Sequences, FiniteSets, TLC

(***************************************************************************)
(* Bytes and strings                                                       *)
(***************************************************************************)
At(s, i) == s[i + 1]

Slice(s, a, b) == SubSeq(s, a + 1, b)

LowerSeq ==
    << "a", "b", "c", "d", "e", "f", "g", "h", "i", "j", "k", "l", "m",
       "n", "o", "p", "q", "r", "s", "t", "u", "v", "w", "x", "y", "z" >>

UpperSeq ==
    << "A", "B", "C", "D", "E", "F", "G", "H", "I", "J", "K", "L", "M",
       "N", "O", "P", "Q", "R", "S", "T", "U", "V", "W", "X", "Y", "Z" >>

LowerLetters == { LowerSeq[k] : k \in 1..26 }

UpperLetters == { UpperSeq[k] : k \in 1..26 }

Digits == { "0", "1", "2", "3", "4", "5", "6", "7", "8", "9" }

\* unicode.IsSpace restricted to the bytes the inputs use
WhiteSpace == { " ", "\t", "\n", "\r" }

ToUpperByte(c) ==
    IF c \in LowerLetters
    THEN UpperSeq[CHOOSE k \in 1..26 : LowerSeq[k] = c]
    ELSE c

\* strings.ToUpper
ToUpper(s) == [k \in 1..Len(s) |-> ToUpperByte(s[k])]

\* strings.TrimSpace
TrimSpace(s) ==
    LET nonSpace == { k \in 1..Len(s) : s[k] \notin WhiteSpace }
    IN  IF nonSpace = {} THEN << >>
        ELSE SubSeq(s, CHOOSE a \in nonSpace : \A b \in nonSpace : a <= b,
                       CHOOSE a \in nonSpace : \A b \in nonSpace : a >= b)

\* strings.IndexByte(s, c): the 0-based index of the first c in s, or -1
IndexByte(s, c) ==
    LET hits == { k \in 1..Len(s) : s[k] = c }
    IN  IF hits = {} THEN -1
        ELSE (CHOOSE a \in hits : \A b \in hits : a <= b) - 1

(***************************************************************************)
(* The words the parser compares tokens with                               *)
(***************************************************************************)
wSELECT == << "S", "E", "L", "E", "C", "T" >>

wINSERT == << "I", "N", "S", "E", "R", "T" >>

wINTO == << "I", "N", "T", "O" >>

wVALUES == << "V", "A", "L", "U", "E", "S" >>

wUPDATE == << "U", "P", "D", "A", "T", "E" >>

wDELETE == << "D", "E", "L", "E", "T", "E" >>

wWHERE == << "W", "H", "E", "R", "E" >>

wFROM == << "F", "R", "O", "M" >>

wSET == << "S", "E", "T" >>

wAS == << "A", "S" >>

wAND == << "A", "N", "D" >>

\* var reservedSymbols: the keys of the map
reservedSymbols == { "(", ")", ">", "<", "=", "!", ",", ";" }

\* var reservedWords: the map, as the rWord of a key (rUnknown for no key)
reservedWords(s) ==
    CASE s = << "(" >>      -> "rLeftBracket"
      [] s = << ")" >>      -> "rRightBracket"
      [] s = << ">" >>      -> "rGT"
      [] s = << ">", "=" >> -> "rGTE"
      [] s = << "<" >>      -> "rLT"
      [] s = << "<", "=" >> -> "rLTE"
      [] s = << "=" >>      -> "rEQ"
      [] s = << "!", "=" >> -> "rNE"
      [] s = << "," >>      -> "rCOMMA"
      [] s = << ";" >>      -> "rSEMI"
      [] s = wAS            -> "rAS"
      [] s = wSELECT        -> "rSELECT"
      [] s = wINSERT        -> "rINSERT"
      [] s = wINTO          -> "rINTO"
      [] s = wVALUES        -> "rVALUES"
      [] s = wUPDATE        -> "rUPDATE"
      [] s = wDELETE        -> "rDELETE"
      [] s = wFROM          -> "rFROM"
      [] s = wWHERE         -> "rWHERE"
      [] s = wSET           -> "rSET"
      [] OTHER              -> "rUnknown"

(***************************************************************************)
(* isIdentifier returns (isIdentifier, isNumber)                           *)
(***************************************************************************)
isIdentifier(s) ==
    IF Len(s) = 0 THEN [id |-> FALSE, num |-> FALSE]
    ELSE IF reservedWords(ToUpper(s)) # "rUnknown"
    THEN [id |-> FALSE, num |-> FALSE]
    ELSE IF s[1] = "-" \/ s[1] \in Digits
    THEN IF \A k \in 2..Len(s) : s[k] \in Digits \/ s[k] = "."
         THEN [id |-> FALSE, num |-> TRUE]
         ELSE [id |-> FALSE, num |-> FALSE]
    ELSE IF s[1] \in LowerLetters \/ s[1] \in UpperLetters \/ s[1] = "_"
    THEN LET bad == { k \in 2..Len(s) :
                        ~ (\/ s[k] \in LowerLetters
                           \/ s[k] \in UpperLetters
                           \/ s[k] \in Digits
                           \/ s[k] = "_") }
         IN  IF bad = {} THEN [id |-> TRUE, num |-> FALSE]
             ELSE LET k == CHOOSE a \in bad : \A b \in bad : a <= b
                  IN  IF s[k] = "(" /\ s[Len(s)] = ")"
                      THEN [id |-> TRUE, num |-> FALSE]
                      ELSE [id |-> FALSE, num |-> FALSE]
    ELSE [id |-> FALSE, num |-> FALSE]

isIdentifierOrAsterisk(s) ==
    IF s = << "*" >> THEN [id |-> TRUE, num |-> FALSE] ELSE isIdentifier(s)

(***************************************************************************)
(* Errors: nil, or an *ErrorWithPos{msg, pos}.  A message built by         *)
(* newErrorf keeps its format and its %s argument apart.                   *)
(***************************************************************************)
NoError == [nil |-> TRUE, msg |-> "", arg |-> << >>, pos |-> 0]

\* a faulty error: the position is not kept
newErrorNoPos(pos, msg) == [nil |-> FALSE, msg |-> msg, arg |-> << >>, pos |-> 0]

newError(pos, msg) == [nil |-> FALSE, msg |-> msg, arg |-> << >>, pos |-> pos]

newErrorf(pos, format, a) == [nil |-> FALSE, msg |-> format, arg |-> a, pos |-> pos]

(***************************************************************************)
(* query.Query and query.Condition (package query): the zero values        *)
(***************************************************************************)
UnknownType == "UnknownType"

UnknownOperator == "UnknownOperator"

OpField == "OpField"

OpQuoted == "OpQuoted"

OpNumber == "OpNumber"

\* The zero value of a Condition's operand type: the first of the tags.
OpZero == OpField

EmptyQuery ==
    [ Type       |-> UnknownType,
      TableName  |-> << >>,
      Conditions |-> << >>,
      Updates    |-> << >>,
      Inserts    |-> << >>,
      Fields     |-> << >>,
      Aliases    |-> << >> ]

Condition(operand1, operand1Type) ==
    [ Operand1     |-> operand1,
      Operand1Type |-> operand1Type,
      Operator     |-> UnknownOperator,
      Operand2     |-> << >>,
      Operand2Type |-> OpZero ]

\* m[k] = v on a Go map, the map being a function on its set of keys
MapSet(m, k, v) == [x \in (DOMAIN m) \cup {k} |-> IF x = k THEN v ELSE m[x]]

(***************************************************************************)
(* type parser struct, and the parser Parse constructs                     *)
(***************************************************************************)
NewParser(sql) ==
    [ i               |-> 0,
      len             |-> 0,
      peeked          |-> << >>,
      peekQuoted      |-> FALSE,
      sql             |-> sql,
      sqlUpper        |-> ToUpper(sql),
      step            |-> "stepType",
      query           |-> EmptyQuery,
      err             |-> NoError,
      nextUpdateField |-> << >> ]

(***************************************************************************)
(* The cursor.  A peek...WithLength returns the token s, its length n and  *)
(* the value q it leaves in p.peekQuoted.                                  *)
(***************************************************************************)
peekQuotedStringWithLength(p, upper) ==
    LET closing == { k \in (p.i + 1)..(Len(p.sql) - 1) :
                       At(p.sql, k) = "'" /\ At(p.sql, k - 1) # "\\" }
    IN  IF closing = {} THEN [s |-> << >>, n |-> 0, q |-> TRUE]
        ELSE LET k == CHOOSE a \in closing : \A b \in closing : a <= b
             IN  [ s |-> Slice(IF upper THEN p.sqlUpper ELSE p.sql, p.i + 1, k),
                   n |-> (k - (p.i + 1)) + 2,
                   q |-> TRUE ]

isIdentifierSymbol(c) ==
    \/ c \in LowerLetters
    \/ c \in UpperLetters
    \/ c \in Digits
    \/ c \in { "*", "_", "-", "." }

peekIdentifierWithLength(p, upper) ==
    IF At(p.sqlUpper, p.i) \in reservedSymbols
    THEN IF At(p.sql, p.i) \in { "(", ")" }
         THEN [s |-> Slice(p.sql, p.i, p.i + 1), n |-> 1, q |-> p.peekQuoted]
         ELSE LET stops == { k \in (p.i + 1)..Len(p.sql) :
                               \/ k = Len(p.sql)
                               \/ At(p.sqlUpper, k) \notin reservedSymbols
                               \/ At(p.sql, k) \in { "(", ")" } }
                  k == CHOOSE a \in stops : \A b \in stops : a <= b
              IN  [s |-> Slice(p.sql, p.i, k), n |-> k - p.i, q |-> p.peekQuoted]
    ELSE LET stops == { k \in p.i..(Len(p.sql) - 1) :
                          ~ isIdentifierSymbol(At(p.sql, k)) }
         IN  IF stops = {}
             THEN [ s |-> Slice(IF upper THEN p.sqlUpper ELSE p.sql, p.i, Len(p.sql)),
                    n |-> Len(p.sql) - p.i,
                    q |-> p.peekQuoted ]
             ELSE LET k   == CHOOSE a \in stops : \A b \in stops : a <= b
                      end == IndexByte(Slice(p.sql, k + 1, Len(p.sql)), ")")
                      \* detect function
                      e   == IF At(p.sql, k) = "(" /\ end >= 0 THEN k + end + 2 ELSE k
                  IN  [ s |-> Slice(IF upper THEN p.sqlUpper ELSE p.sql, p.i, e),
                        n |-> e - p.i,
                        q |-> p.peekQuoted ]

peekWithLength(p, upper) ==
    IF p.i >= Len(p.sql) THEN [s |-> << >>, n |-> 0, q |-> p.peekQuoted]
    ELSE IF At(p.sql, p.i) = "'" THEN peekQuotedStringWithLength(p, upper)
    ELSE peekIdentifierWithLength(p, upper)

peek(p, upper) ==
    LET r == peekWithLength(p, upper)
    IN  [p EXCEPT !.peeked = r.s, !.len = r.n, !.peekQuoted = r.q]

peekQuotedString(p, upper) ==
    LET r == peekQuotedStringWithLength(p, upper)
    IN  [p EXCEPT !.peeked = r.s, !.len = r.n, !.peekQuoted = r.q]

popWhitespace(p) ==
    LET stops == { k \in p.i..Len(p.sql) : k >= Len(p.sql) \/ At(p.sql, k) # " " }
    IN  IF p.i >= Len(p.sql) THEN p
        ELSE [p EXCEPT !.i = CHOOSE a \in stops : \A b \in stops : a <= b]

pop(p) ==
    popWhitespace([p EXCEPT !.peeked = << >>, !.i = p.i + p.len,
                            !.len = 0, !.peekQuoted = FALSE])

(***************************************************************************)
(* doParse: one operator per case of the switch on p.step.  Each takes the *)
(* parser at the top of a loop iteration and gives the parser after it,    *)
(* with returned = TRUE and the error when the case returns from doParse.  *)
(***************************************************************************)
Continue(p) == [p |-> p, returned |-> FALSE, err |-> NoError]

Return(p, err) == [p |-> p, returned |-> TRUE, err |-> err]

\* a faulty stepType: INSERT without INTO and DELETE without FROM are reported
\* as an invalid query type
caseStepTypeInvalid(p) ==
    LET p1 == peek(p, TRUE)
        s  == p1.peeked
    IN  CASE s = wSELECT ->
               Continue(pop([p1 EXCEPT !.query.Type = "Select",
                                       !.step = "stepSelectField"]))
          [] s = wINSERT ->
               LET p2 == peek(pop(p1), TRUE)
               IN  IF p2.peeked # wINTO
                   THEN Return(p2, newError(p2.i, "invalid query type"))
                   ELSE Continue(pop([p2 EXCEPT !.query.Type = "Insert",
                                                !.step = "stepInsertTable"]))
          [] s = wUPDATE ->
               Continue(pop([p1 EXCEPT !.query.Type = "Update",
                                       !.query.Updates = << >>,
                                       !.step = "stepUpdateTable"]))
          [] s = wDELETE ->
               LET p2 == peek(pop(p1), TRUE)
               IN  IF p2.peeked # wFROM
                   THEN Return(p2, newError(p2.i, "invalid query type"))
                   ELSE Continue(pop([p2 EXCEPT !.query.Type = "Delete",
                                                !.step = "stepDeleteFromTable"]))
          [] OTHER -> Return(p1, newError(p1.i, "invalid query type"))

caseStepType(p) ==
    LET p1 == peek(p, TRUE)
        s  == p1.peeked
    IN  CASE s = wSELECT ->
               Continue(pop([p1 EXCEPT !.query.Type = "Select",
                                       !.step = "stepSelectField"]))
          [] s = wINSERT ->
               LET p2 == peek(pop(p1), TRUE)
               IN  IF p2.peeked # wINTO
                   THEN Return(p2, newErrorf(p2.i, "at INSERT: expected INTO, got %s",
                                             p2.peeked))
                   ELSE Continue(pop([p2 EXCEPT !.query.Type = "Insert",
                                                !.step = "stepInsertTable"]))
          [] s = wUPDATE ->
               Continue(pop([p1 EXCEPT !.query.Type = "Update",
                                       !.query.Updates = << >>,
                                       !.step = "stepUpdateTable"]))
          [] s = wDELETE ->
               LET p2 == peek(pop(p1), TRUE)
               IN  IF p2.peeked # wFROM
                   THEN Return(p2, newErrorf(p2.i, "at DELETE: expected FROM, got %s",
                                             p2.peeked))
                   ELSE Continue(pop([p2 EXCEPT !.query.Type = "Delete",
                                                !.step = "stepDeleteFromTable"]))
          [] OTHER -> Return(p1, newError(p1.i, "invalid query type"))

\* a faulty stepSelectField: a field without AS gets no entry in Aliases
caseStepSelectFieldNoAlias(p) ==
    LET p1         == peek(p, FALSE)
        identifier == p1.peeked
    IN  IF ~ isIdentifierOrAsterisk(identifier).id
        THEN Return(p1, newError(p1.i, "at SELECT: expected field to SELECT"))
        ELSE
        LET p2 == pop([p1 EXCEPT !.query.Fields = Append(@, identifier)])
            p3 == peek(p2, TRUE)
        IN  IF p3.peeked = wAS
            THEN LET p4    == peek(pop(p3), FALSE)
                     alias == p4.peeked
                 IN  IF ~ isIdentifierOrAsterisk(alias).id
                     THEN Return(p4, newErrorf(p4.i, "at AS: expected alias for %s",
                                               identifier))
                     ELSE
                     LET p5 == peek(pop([p4 EXCEPT !.query.Aliases = Append(@, alias)]),
                                    TRUE)
                     IN  IF p5.peeked = wFROM
                         THEN Continue([p5 EXCEPT !.step = "stepSelectFrom"])
                         ELSE Continue([p5 EXCEPT !.step = "stepSelectComma"])
            ELSE IF p3.peeked = wFROM
                 THEN Continue([p3 EXCEPT !.step = "stepSelectFrom"])
                 ELSE Continue([p3 EXCEPT !.step = "stepSelectComma"])

caseStepSelectField(p) ==
    LET p1         == peek(p, FALSE)
        identifier == p1.peeked
    IN  IF ~ isIdentifierOrAsterisk(identifier).id
        THEN Return(p1, newError(p1.i, "at SELECT: expected field to SELECT"))
        ELSE
        LET p2 == pop([p1 EXCEPT !.query.Fields = Append(@, identifier)])
            p3 == peek(p2, TRUE)
        IN  IF p3.peeked = wAS
            THEN \* alias
                 LET p4    == peek(pop(p3), FALSE)
                     alias == p4.peeked
                 IN  IF ~ isIdentifierOrAsterisk(alias).id
                     THEN Return(p4, newErrorf(p4.i, "at AS: expected alias for %s",
                                               identifier))
                     ELSE
                     LET p5 == peek(pop([p4 EXCEPT !.query.Aliases = Append(@, alias)]),
                                    TRUE)
                     IN  IF p5.peeked = wFROM
                         THEN Continue([p5 EXCEPT !.step = "stepSelectFrom"])
                         ELSE Continue([p5 EXCEPT !.step = "stepSelectComma"])
            ELSE LET p4 == [p3 EXCEPT !.query.Aliases = Append(@, << >>)]
                 IN  IF p4.peeked = wFROM
                     THEN Continue([p4 EXCEPT !.step = "stepSelectFrom"])
                     ELSE Continue([p4 EXCEPT !.step = "stepSelectComma"])

caseStepSelectComma(p) ==
    LET p1 == peek(p, FALSE)
    IN  IF p1.peeked # << "," >>
        THEN Return(p1, newError(p1.i, "at SELECT: expected comma or FROM"))
        ELSE Continue([pop(p1) EXCEPT !.step = "stepSelectField"])

caseStepSelectFrom(p) ==
    LET p1 == peek(p, TRUE)
    IN  IF p1.peeked # wFROM
        THEN Return(p1, newError(p1.i, "at SELECT: expected FROM"))
        ELSE Continue([pop(p1) EXCEPT !.step = "stepSelectFromTable"])

\* stepSelectFromTable, stepInsertTable, stepDeleteFromTable and stepUpdateTable
\* differ in the message and the next step only
caseTableName(p, msg, next) ==
    LET p1        == peek(p, FALSE)
        tableName == p1.peeked
    IN  IF Len(tableName) = 0
        THEN Return(p1, newError(p1.i, msg))
        ELSE Continue([pop([p1 EXCEPT !.query.TableName = tableName])
                         EXCEPT !.step = next])

caseStepSelectFromTable(p) ==
    caseTableName(p, "at SELECT: expected quoted table name", "stepWhere")

\* a faulty stepInsertTable: the WHERE clause comes after the table name
caseStepInsertTableWhere(p) ==
    caseTableName(p, "at INSERT INTO: expected quoted table name", "stepWhere")

caseStepInsertTable(p) ==
    caseTableName(p, "at INSERT INTO: expected quoted table name",
                  "stepInsertFieldsOpeningParens")

caseStepDeleteFromTable(p) ==
    caseTableName(p, "at DELETE FROM: expected quoted table name", "stepWhere")

caseStepUpdateTable(p) ==
    caseTableName(p, "at UPDATE: expected quoted table name", "stepUpdateSet")

\* a faulty stepUpdateSet: a WHERE in the place of SET opens the WHERE clause
caseStepUpdateSetOrWhere(p) ==
    LET p1 == peek(p, TRUE)
    IN  IF p1.peeked = wWHERE
        THEN Continue([p1 EXCEPT !.step = "stepWhere"])
        ELSE IF p1.peeked # wSET
        THEN Return(p1, newError(p1.i, "at UPDATE: expected 'SET'"))
        ELSE Continue([pop(p1) EXCEPT !.step = "stepUpdateField"])

caseStepUpdateSet(p) ==
    LET p1 == peek(p, TRUE)
    IN  IF p1.peeked # wSET
        THEN Return(p1, newError(p1.i, "at UPDATE: expected 'SET'"))
        ELSE Continue([pop(p1) EXCEPT !.step = "stepUpdateField"])

caseStepUpdateField(p) ==
    LET p1         == peek(p, FALSE)
        identifier == p1.peeked
    IN  IF ~ isIdentifier(identifier).id
        THEN Return(p1, newError(p1.i,
                                 "at UPDATE: expected at least one field to update"))
        ELSE Continue([pop([p1 EXCEPT !.nextUpdateField = identifier])
                         EXCEPT !.step = "stepUpdateEquals"])

caseStepUpdateEquals(p) ==
    LET p1 == peek(p, FALSE)
    IN  IF p1.peeked # << "=" >>
        THEN Return(p1, newError(p1.i, "at UPDATE: expected '='"))
        ELSE Continue([pop(p1) EXCEPT !.step = "stepUpdateValue"])

\* a faulty stepUpdateValue: a column assigned before keeps its first value
caseStepUpdateValueFirstWins(p) ==
    LET p1          == peekQuotedString(p, FALSE)
        quotedValue == p1.peeked
    IN  IF p1.len = 0
        THEN Return(p1, newError(p1.i, "at UPDATE: expected quoted value"))
        ELSE
        LET p2 == peek(pop([p1 EXCEPT
                              !.query.Updates =
                                  IF p1.nextUpdateField \in DOMAIN @ THEN @
                                  ELSE MapSet(@, p1.nextUpdateField, quotedValue),
                              !.nextUpdateField = << >>]),
                       TRUE)
        IN  IF p2.peeked = wWHERE
            THEN Continue([p2 EXCEPT !.step = "stepWhere"])
            ELSE Continue([p2 EXCEPT !.step = "stepUpdateComma"])

caseStepUpdateValue(p) ==
    LET p1          == peekQuotedString(p, FALSE)
        quotedValue == p1.peeked
    IN  IF p1.len = 0
        THEN Return(p1, newError(p1.i, "at UPDATE: expected quoted value"))
        ELSE
        LET p2 == peek(pop([p1 EXCEPT
                              !.query.Updates =
                                  MapSet(@, p1.nextUpdateField, quotedValue),
                              !.nextUpdateField = << >>]),
                       TRUE)
        IN  IF p2.peeked = wWHERE
            THEN Continue([p2 EXCEPT !.step = "stepWhere"])
            ELSE Continue([p2 EXCEPT !.step = "stepUpdateComma"])

caseStepUpdateComma(p) ==
    LET p1 == peek(p, FALSE)
    IN  IF p1.peeked # << "," >>
        THEN Return(p1, newError(p1.i, "at UPDATE: expected ','"))
        ELSE Continue([pop(p1) EXCEPT !.step = "stepUpdateField"])

\* the case up to the call of parseWhere, which runs in the same iteration
caseStepWhere(p) ==
    LET p1 == peek(p, TRUE)
    IN  IF p1.peeked # wWHERE
        THEN Return(p1, newError(p1.i, "expected WHERE"))
        ELSE Continue([pop(p1) EXCEPT !.step = "stepWhereField"])

caseStepInsertFieldsOpeningParens(p) ==
    LET p1 == peek(p, FALSE)
    IN  IF Len(p1.peeked) # 1 \/ p1.peeked # << "(" >>
        THEN Return(p1, newError(p1.i, "at INSERT INTO: expected opening parens"))
        ELSE Continue([pop(p1) EXCEPT !.step = "stepInsertFields"])

\* a faulty stepInsertFields: a column gets an entry in Aliases as well
caseStepInsertFieldsAliased(p) ==
    LET p1         == peek(p, FALSE)
        identifier == p1.peeked
    IN  IF ~ isIdentifier(identifier).id
        THEN Return(p1, newError(p1.i,
                                 "at INSERT INTO: expected at least one field to insert"))
        ELSE Continue([pop([p1 EXCEPT !.query.Fields = Append(@, identifier),
                                      !.query.Aliases = Append(@, << >>)])
                         EXCEPT !.step = "stepInsertFieldsCommaOrClosingParens"])

caseStepInsertFields(p) ==
    LET p1         == peek(p, FALSE)
        identifier == p1.peeked
    IN  IF ~ isIdentifier(identifier).id
        THEN Return(p1, newError(p1.i,
                                 "at INSERT INTO: expected at least one field to insert"))
        ELSE Continue([pop([p1 EXCEPT !.query.Fields = Append(@, identifier)])
                         EXCEPT !.step = "stepInsertFieldsCommaOrClosingParens"])

caseStepInsertFieldsCommaOrClosingParens(p) ==
    LET p1                   == peek(p, FALSE)
        commaOrClosingParens == p1.peeked
    IN  IF commaOrClosingParens # << "," >> /\ commaOrClosingParens # << ")" >>
        THEN Return(p1, newError(p1.i,
                                 "at INSERT INTO: expected comma or closing parens"))
        ELSE IF commaOrClosingParens = << "," >>
        THEN Continue([pop(p1) EXCEPT !.step = "stepInsertFields"])
        ELSE Continue([pop(p1) EXCEPT !.step = "stepInsertValuesRWord"])

caseStepInsertValuesRWord(p) ==
    LET p1 == peek(p, TRUE)
    IN  IF p1.peeked # wVALUES
        THEN Return(p1, newError(p1.i, "at INSERT INTO: expected 'VALUES'"))
        ELSE Continue([pop(p1) EXCEPT !.step = "stepInsertValuesOpeningParens"])

caseStepInsertValuesOpeningParens(p) ==
    LET p1 == peek(p, FALSE)
    IN  IF p1.peeked # << "(" >>
        THEN Return(p1, newError(p1.i, "at INSERT INTO: expected opening parens"))
        ELSE Continue([pop([p1 EXCEPT !.query.Inserts = Append(@, << >>)])
                         EXCEPT !.step = "stepInsertValues"])

\* a faulty stepInsertValues: the value is put at the head of the row
caseStepInsertValuesAtHead(p) ==
    LET p1          == peekQuotedString(p, FALSE)
        quotedValue == p1.peeked
    IN  IF p1.len = 0
        THEN Return(p1, newError(p1.i, "at INSERT INTO: expected quoted value"))
        ELSE Continue([pop([p1 EXCEPT
                              !.query.Inserts[Len(p1.query.Inserts)] =
                                  << quotedValue >> \o @])
                         EXCEPT !.step = "stepInsertValuesCommaOrClosingParens"])

caseStepInsertValues(p) ==
    LET p1          == peekQuotedString(p, FALSE)
        quotedValue == p1.peeked
    IN  IF p1.len = 0
        THEN Return(p1, newError(p1.i, "at INSERT INTO: expected quoted value"))
        ELSE Continue([pop([p1 EXCEPT
                              !.query.Inserts[Len(p1.query.Inserts)] =
                                  Append(@, quotedValue)])
                         EXCEPT !.step = "stepInsertValuesCommaOrClosingParens"])

caseStepInsertValuesCommaOrClosingParens(p) ==
    LET p1                   == peek(p, FALSE)
        commaOrClosingParens == p1.peeked
    IN  IF commaOrClosingParens # << "," >> /\ commaOrClosingParens # << ")" >>
        THEN Return(p1, newError(p1.i,
                                 "at INSERT INTO: expected comma or closing parens"))
        ELSE
        LET p2               == pop(p1)
            currentInsertRow == p2.query.Inserts[Len(p2.query.Inserts)]
        IN  IF commaOrClosingParens = << "," >>
            THEN Continue([p2 EXCEPT !.step = "stepInsertValues"])
            ELSE IF Len(currentInsertRow) < Len(p2.query.Fields)
            THEN Return(p2, newError(p2.i,
                     "at INSERT INTO: value count doesn't match field count"))
            ELSE Continue([p2 EXCEPT
                             !.step = "stepInsertValuesCommaBeforeOpeningParens"])

caseStepInsertValuesCommaBeforeOpeningParens(p) ==
    LET p1 == peek(p, FALSE)
    IN  IF p1.peeked # << "," >>
        THEN Return(p1, newError(p1.i, "at INSERT INTO: expected comma"))
        ELSE Continue([pop(p1) EXCEPT !.step = "stepInsertValuesOpeningParens"])

(***************************************************************************)
(* parseWhere: one operator per case of its switch.  returned = TRUE when  *)
(* the case returns (ended, err) from parseWhere.                          *)
(***************************************************************************)
WhereContinue(p) == [p |-> p, returned |-> FALSE, ended |-> FALSE, err |-> NoError]

WhereReturn(p, ended, err) == [p |-> p, returned |-> TRUE, ended |-> ended, err |-> err]

\* a faulty loop top: an UPDATE or DELETE without condition gets the error of
\* the mandatory WHERE
parseWhereAtEndMandatory(p) ==
    IF Len(p.query.Conditions) = 0
    THEN IF p.query.Type \in {"Update", "Delete"}
         THEN WhereReturn(p, TRUE, newError(p.i,
                  "at WHERE: WHERE clause is mandatory for UPDATE & DELETE"))
         ELSE WhereReturn(p, TRUE, newError(p.i, "at WHERE: empty WHERE clause"))
    ELSE WhereReturn(p, TRUE, NoError)

\* the top of parseWhere's loop when p.i >= len(p.sql)
parseWhereAtEnd(p) ==
    IF Len(p.query.Conditions) = 0
    THEN WhereReturn(p, TRUE, newError(p.i, "at WHERE: empty WHERE clause"))
    ELSE WhereReturn(p, TRUE, NoError)

\* a faulty stepWhereField: any token that is not empty is taken as a field
caseStepWhereFieldAny(p) ==
    LET p1         == peek(p, FALSE)
        identifier == p1.peeked
    IN  IF p1.peekQuoted
        THEN WhereContinue(
                 [pop([p1 EXCEPT !.query.Conditions =
                                     Append(@, Condition(identifier, OpQuoted))])
                    EXCEPT !.step = "stepWhereOperator"])
        ELSE IF Len(identifier) = 0
        THEN WhereReturn(p1, FALSE, newError(p1.i, "at WHERE: empty WHERE clause"))
        ELSE WhereContinue(
                 [pop([p1 EXCEPT !.query.Conditions =
                                     Append(@, Condition(identifier, OpField))])
                    EXCEPT !.step = "stepWhereOperator"])

caseStepWhereField(p) ==
    LET p1         == peek(p, FALSE)
        identifier == p1.peeked
    IN  IF p1.peekQuoted
        THEN WhereContinue(
                 [pop([p1 EXCEPT !.query.Conditions =
                                     Append(@, Condition(identifier, OpQuoted))])
                    EXCEPT !.step = "stepWhereOperator"])
        ELSE IF Len(identifier) = 0
        THEN WhereReturn(p1, FALSE, newError(p1.i, "at WHERE: empty WHERE clause"))
        ELSE IF ~ isIdentifier(identifier).id
        THEN IF Len(p1.query.Conditions) = 0
             THEN WhereReturn(p1, TRUE, newError(p1.i, "at WHERE: expected field"))
             ELSE WhereReturn(p1, TRUE, NoError)
        ELSE WhereContinue(
                 [pop([p1 EXCEPT !.query.Conditions =
                                     Append(@, Condition(identifier, OpField))])
                    EXCEPT !.step = "stepWhereOperator"])

\* the switch on the rWord of the operator token
operatorOf(rword) ==
    CASE rword = "rEQ"  -> "Eq"
      [] rword = "rGT"  -> "Gt"
      [] rword = "rGTE" -> "Gte"
      [] rword = "rLT"  -> "Lt"
      [] rword = "rLTE" -> "Lte"
      [] rword = "rNE"  -> "Ne"
      [] OTHER          -> UnknownOperator

caseStepWhereOperator(p) ==
    LET p1       == peek(p, FALSE)
        last     == Len(p1.query.Conditions)
        operator == operatorOf(reservedWords(p1.peeked))
    IN  IF operator = UnknownOperator
        THEN WhereReturn(p1, FALSE, newError(p1.i, "at WHERE: unknown operator"))
        ELSE WhereContinue(
                 [pop([p1 EXCEPT !.query.Conditions[last].Operator = operator])
                    EXCEPT !.step = "stepWhereValue"])

caseStepWhereValue(p) ==
    LET p1         == peek(p, FALSE)
        last       == Len(p1.query.Conditions)
        identifier == p1.peeked
        kind       == IF p1.peekQuoted THEN OpQuoted
                      ELSE IF isIdentifier(identifier).id THEN OpField
                      ELSE IF isIdentifier(identifier).num THEN OpNumber
                      ELSE "none"
    IN  IF kind = "none"
        THEN WhereReturn(p1, FALSE, newError(p1.i, "at WHERE: expected quoted value"))
        ELSE WhereContinue(
                 [pop([p1 EXCEPT !.query.Conditions[last].Operand2 = identifier,
                                 !.query.Conditions[last].Operand2Type = kind])
                    EXCEPT !.step = "stepWhereAnd"])

\* a faulty step: a token that is not AND is read again as a value
caseStepWhereAndRetry(p) ==
    LET p1 == peek(p, TRUE)
    IN  IF p1.peeked # wAND
        THEN WhereContinue([p1 EXCEPT !.step = "stepWhereValue"])
        ELSE WhereContinue([pop(p1) EXCEPT !.step = "stepWhereField"])

caseStepWhereAnd(p) ==
    LET p1 == peek(p, TRUE)
    IN  IF p1.peeked # wAND
        THEN WhereReturn(p1, FALSE, newError(p1.i, "expected AND"))
        ELSE WhereContinue([pop(p1) EXCEPT !.step = "stepWhereField"])

(***************************************************************************)
(* validate                                                                *)
(***************************************************************************)
\* a faulty check: the operator is not looked at
conditionErrorNoOperator(p, c) ==
    IF c.Operand1 = << >> /\ c.Operand1Type = OpField
    THEN newError(p.i, "at WHERE: condition with empty left side operand")
    ELSE IF c.Operand2 = << >> /\ c.Operand2Type = OpField
    THEN newError(p.i, "at WHERE: condition with empty right side operand")
    ELSE NoError

\* a faulty check: the right side of a condition is not looked at
conditionErrorLeftOnly(p, c) ==
    IF c.Operator = UnknownOperator
    THEN newError(p.i, "at WHERE: condition without operator")
    ELSE IF c.Operand1 = << >> /\ c.Operand1Type = OpField
    THEN newError(p.i, "at WHERE: condition with empty left side operand")
    ELSE NoError

\* the error validate gives for one condition
conditionError(p, c) ==
    IF c.Operator = UnknownOperator
    THEN newError(p.i, "at WHERE: condition without operator")
    ELSE IF c.Operand1 = << >> /\ c.Operand1Type = OpField
    THEN newError(p.i, "at WHERE: condition with empty left side operand")
    ELSE IF c.Operand2 = << >> /\ c.Operand2Type = OpField
    THEN newError(p.i, "at WHERE: condition with empty right side operand")
    ELSE NoError

\* the checks of validate, in its order: each gives its error or NoError
checkEmptyWhere(p) ==
    IF Len(p.query.Conditions) = 0 /\ p.step = "stepWhereField"
    THEN newError(p.i, "at WHERE: empty WHERE clause")
    ELSE NoError

checkType(p) ==
    IF p.query.Type = UnknownType
    THEN newError(p.i, "query type cannot be empty")
    ELSE NoError

\* a faulty check: the table name is required of every statement
checkTableNameAlways(p) ==
    IF p.query.TableName = << >>
    THEN newError(p.i, "table name cannot be empty")
    ELSE NoError

checkTableName(p) ==
    IF (p.query.Type # "Select" \/ Len(p.query.Fields) = 0)
       /\ p.query.TableName = << >>
    THEN newError(p.i, "table name cannot be empty")
    ELSE NoError

\* a faulty check: DELETE is forgotten
checkWhereMandatoryUpdateOnly(p) ==
    IF Len(p.query.Conditions) = 0 /\ p.query.Type = "Update"
    THEN newError(p.i, "at WHERE: WHERE clause is mandatory for UPDATE & DELETE")
    ELSE NoError

checkWhereMandatory(p) ==
    IF Len(p.query.Conditions) = 0
       /\ (p.query.Type = "Update" \/ p.query.Type = "Delete")
    THEN newError(p.i, "at WHERE: WHERE clause is mandatory for UPDATE & DELETE")
    ELSE NoError

\* the error of the loop over p.query.Conditions: that of the first
\* condition that has one
checkConditions(p) ==
    LET cs  == p.query.Conditions
        bad == { k \in 1..Len(cs) : ~ conditionError(p, cs[k]).nil }
    IN  IF bad = {} THEN NoError
        ELSE conditionError(p, cs[CHOOSE a \in bad : \A b \in bad : a <= b])

\* a faulty check: the columns are counted, not the rows
checkInsertRowsFields(p) ==
    IF p.query.Type = "Insert" /\ Len(p.query.Fields) = 0
    THEN newError(p.i, "at INSERT INTO: need at least one row to insert")
    ELSE NoError

checkInsertRows(p) ==
    IF p.query.Type = "Insert" /\ Len(p.query.Inserts) = 0
    THEN newError(p.i, "at INSERT INTO: need at least one row to insert")
    ELSE NoError

\* a faulty check: only a row shorter than the column list is refused
checkInsertValuesFewer(p) ==
    IF p.query.Type = "Insert"
       /\ \E k \in 1..Len(p.query.Inserts) :
              Len(p.query.Inserts[k]) < Len(p.query.Fields)
    THEN newError(p.i, "at INSERT INTO: value count doesn't match field count")
    ELSE NoError

checkInsertValues(p) ==
    IF p.query.Type = "Insert"
       /\ \E k \in 1..Len(p.query.Inserts) :
              Len(p.query.Inserts[k]) # Len(p.query.Fields)
    THEN newError(p.i, "at INSERT INTO: value count doesn't match field count")
    ELSE NoError

checkAliases(p) ==
    IF p.query.Type = "Select" /\ Len(p.query.Fields) # Len(p.query.Aliases)
    THEN newError(p.i, "fileds and aliases count mismatch")
    ELSE NoError

\* the first error of a sequence of errors, or NoError
FirstError(errs) ==
    LET bad == { k \in 1..Len(errs) : ~ errs[k].nil }
    IN  IF bad = {} THEN NoError
        ELSE errs[CHOOSE a \in bad : \A b \in bad : a <= b]

\* a faulty validate: the WHERE check of UPDATE & DELETE comes before the
\* table name check
validateWhereFirst(p) ==
    FirstError(<< checkEmptyWhere(p), checkType(p), checkWhereMandatory(p),
                  checkTableName(p), checkConditions(p), checkInsertRows(p),
                  checkInsertValues(p), checkAliases(p) >>)

validate(p) ==
    FirstError(<< checkEmptyWhere(p), checkType(p), checkTableName(p),
                  checkWhereMandatory(p), checkConditions(p), checkInsertRows(p),
                  checkInsertValues(p), checkAliases(p) >>)

(***************************************************************************)
(* The inputs.  A statement is written as a sequence of lexemes and joined *)
(* into one string.  The statements are the prefixes of a family of        *)
(* well-formed and ill-formed statements of bounded size, and the          *)
(* canonical statement of each type with one lexeme replaced.              *)
(***************************************************************************)
MaxFields == 2

MaxConds == 2

MaxRows == 2

MaxBatch == 3

Quoted(s) == << "'" >> \o s \o << "'" >>

Lower(s) ==
    [k \in 1..Len(s) |->
        IF s[k] \in UpperLetters
        THEN LowerSeq[CHOOSE j \in 1..26 : UpperSeq[j] = s[k]]
        ELSE s[k]]

Keywords ==
    { wSELECT, wINSERT, wINTO, wVALUES, wUPDATE, wDELETE,
      wWHERE, wFROM, wSET, wAS, wAND }

SymbolLexemes ==
    { << "(" >>, << ")" >>, << "," >>, << "=" >>, << "!", "=" >>,
      << ">", "=" >>, << "<", "=" >>, << "<" >>, << ">" >>,
      << "!" >>, << ";" >> }

ValueLexemes ==
    { << "a" >>, << "*" >>, << "f", "(", "a", ")" >>, << "a", "_", "1" >>,
      Quoted(<< "1" >>), Quoted(<< >>), Quoted(<< "i", "t", "\\", "'", "s" >>),
      Quoted(<< "q" >>), << "x", "y", "'" >>,
      << "2" >>, << "-", "1", ".", "5" >>,
      << "-" >>, << "1", ".", "2", ".", "3" >>,
      << "'", "x" >>, << "#" >>, << "\t" >> }

\* a keyword or an operator in quotes: a string literal, as the input has it
QuotedWords ==
    { Quoted(Lower(k)) : k \in Keywords } \cup { Quoted(<< "=" >>) }

Vocabulary == Keywords \cup SymbolLexemes \cup ValueLexemes \cup QuotedWords

RECURSIVE Flatten(_)
Flatten(ss) == IF ss = << >> THEN << >> ELSE Head(ss) \o Flatten(Tail(ss))

\* the lexemes with sep between every two
RECURSIVE Join(_, _)
Join(lexemes, sep) ==
    IF lexemes = << >> THEN << >>
    ELSE IF Len(lexemes) = 1 THEN lexemes[1]
    ELSE lexemes[1] \o sep \o Join(Tail(lexemes), sep)

\* the lexemes with a space only where two words meet
RECURSIVE JoinTight(_)
JoinTight(lexemes) ==
    IF lexemes = << >> THEN << >>
    ELSE IF Len(lexemes) = 1 THEN lexemes[1]
    ELSE lexemes[1]
         \o (IF lexemes[1] \in SymbolLexemes \/ lexemes[2] \in SymbolLexemes
             THEN << >> ELSE << " " >>)
         \o JoinTight(Tail(lexemes))

\* items[1] sep items[2] sep ... items[n], each item a sequence of lexemes
RECURSIVE Separated(_, _)
Separated(items, sep) ==
    IF items = << >> THEN << >>
    ELSE IF Len(items) = 1 THEN items[1]
    ELSE items[1] \o << sep >> \o Separated(Tail(items), sep)

Letter(k) == << LowerSeq[((k - 1) % 26) + 1] >>

Digit(k) == << ToString(k % 10) >>

tableA == Quoted(<< "a" >>)

\* the k-th field of a SELECT list: plain, function with alias, asterisk
SelectField(k) ==
    CASE k % 3 = 1 -> << Letter(k) >>
      [] k % 3 = 2 -> << << "f", "(", "a", ")" >>, wAS, << "v" >> >>
      [] OTHER     -> << << "*" >> >>

\* the k-th condition of a WHERE clause: quoted, number, field on the right
WhereCondition(k) ==
    CASE k % 3 = 1 -> << Letter(k), << "!", "=" >>, Quoted(Digit(k)) >>
      [] k % 3 = 2 -> << Letter(k), << "=" >>, Digit(k) >>
      [] OTHER     -> << Letter(k), << ">", "=" >>, << "z" >> >>

WhereClause(n) ==
    IF n = 0 THEN << >>
    ELSE << wWHERE >> \o Separated([k \in 1..n |-> WhereCondition(k)], wAND)

SelectStatement(nf, from, nc) ==
    << wSELECT >> \o Separated([k \in 1..nf |-> SelectField(k)], << "," >>)
    \o (IF from THEN << wFROM, tableA >> \o WhereClause(nc) ELSE << >>)

\* row r with n values
InsertRow(r, n) ==
    << << "(" >> >>
    \o Separated([c \in 1..n |-> << Quoted(Digit(r) \o Digit(c)) >>], << "," >>)
    \o << << ")" >> >>

\* nf columns and nr rows of nf values, but for row d, which has nv
InsertStatement(nf, nr, d, nv) ==
    << wINSERT, wINTO, tableA, << "(" >> >>
    \o Separated([c \in 1..nf |-> << Letter(c + 1) >>], << "," >>)
    \o << << ")" >>, wVALUES >>
    \o Separated([r \in 1..nr |-> InsertRow(r, IF r = d THEN nv ELSE nf)], << "," >>)

\* the k-th assignment of an UPDATE: the columns are b, c, b, c, ...
UpdateAssignment(k) ==
    << Letter(2 + ((k - 1) % 2)), << "=" >>, Quoted(<< "v" >> \o Digit(k)) >>

UpdateStatement(ns, nc) ==
    << wUPDATE, tableA, wSET >>
    \o Separated([k \in 1..ns |-> UpdateAssignment(k)], << "," >>)
    \o WhereClause(nc)

DeleteStatement(nc) == << wDELETE, wFROM, tableA >> \o WhereClause(nc)

Family ==
    { SelectStatement(nf, from, nc) :
        nf \in 1..MaxFields, from \in BOOLEAN, nc \in 0..MaxConds }
    \cup { InsertStatement(nf, nr, d, nv) :
             nf \in 1..MaxFields, nr \in 1..MaxRows,
             d \in 1..MaxRows, nv \in 1..(MaxFields + 1) }
    \cup { UpdateStatement(ns, nc) : ns \in 1..MaxFields, nc \in 0..MaxConds }
    \cup { DeleteStatement(nc) : nc \in 0..MaxConds }

Canonical ==
    { SelectStatement(MaxFields, TRUE, MaxConds),
      InsertStatement(MaxFields, MaxRows, 1, MaxFields),
      UpdateStatement(MaxFields, MaxConds),
      DeleteStatement(MaxConds) }

Prefixes(S) == UNION { { SubSeq(b, 1, n) : n \in 0..Len(b) } : b \in S }

\* b with its n-th lexeme replaced by v, cut there or not
Replaced(b, n, v, cut) ==
    SubSeq(b, 1, n - 1) \o << v >>
    \o (IF cut THEN << >> ELSE SubSeq(b, n + 1, Len(b)))

Substituted(S) ==
    UNION { { Replaced(b, n, v, cut) :
                n \in 1..Len(b), v \in Vocabulary, cut \in BOOLEAN } : b \in S }

LowerKeywords(s) ==
    [k \in 1..Len(s) |-> IF s[k] \in Keywords THEN Lower(s[k]) ELSE s[k]]

Inputs ==
    { Join(s, << " " >>) : s \in Prefixes(Family) \cup Substituted(Canonical) }
    \cup { JoinTight(s) : s \in Family }
    \cup { Join(LowerKeywords(s), << " ", " " >>) : s \in Canonical }
    \cup { << " ", "\t" >> \o Join(s, << " " >>) \o << " ", "\n" >> : s \in Canonical }
    \cup { Join(UpdateStatement(MaxFields + 1, nc), << " " >>) : nc \in 1..MaxConds }
    \cup { << >>, << " " >>, << " ", "\t", "\n" >> }

\* the statements ParseMany's batches of more than one are made of
BatchPool ==
    { Join(s, << " " >>) :
        s \in { SelectStatement(1, TRUE, 0), DeleteStatement(1),
                 << wSELECT >>, << wUPDATE, tableA >> } }

\* a batch of one statement, or a batch of up to MaxBatch from the pool
Singles == { << s >> : s \in Inputs }

Pooled == UNION { [1..n -> BatchPool] : n \in 0..MaxBatch }


(***************************************************************************)
(* The state: ParseMany's locals, the parser of the Parse call in          *)
(* progress, and where control is.                                         *)
(***************************************************************************)
VARIABLES
    sqls,       \* ParseMany's argument
    idx,        \* the number of statements the range loop is past
    qs,         \* ParseMany's qs
    p,          \* the parser of the current Parse call
    pc,         \* "ParseMany", "doParse", "parseWhere", "parse", "returned", "done"
    scan,       \* what doParse returned: [q, err]
    ret,        \* what Parse returned: [q, err]
    out,        \* what ParseMany returned: [qs, err]
    calls,      \* history: the Parse calls made, each [sql, q, err]
    validated   \* history: the calls of validate in the current Parse call

vars == << sqls, idx, qs, p, pc, scan, ret, out, calls, validated >>

NoResult == [q |-> EmptyQuery, err |-> NoError]

Init ==
    /\ \/ sqls \in Singles
       \/ sqls \in Pooled
    /\ idx = 0
    /\ qs = << >>
    /\ p = NewParser(<< >>)
    /\ pc = "ParseMany"
    /\ scan = NoResult
    /\ ret = NoResult
    /\ out = [qs |-> << >>, err |-> NoError]
    /\ calls = << >>
    /\ validated = 0

(***************************************************************************)
(* ParseMany and Parse                                                     *)
(***************************************************************************)
\* a faulty Parse: the statement is not trimmed
ParseNoTrim(sql) == NewParser(sql)

\* a faulty Parse: the query of the call before is kept
ParseKeepQuery(sql) == [NewParser(TrimSpace(sql)) EXCEPT !.query = p.query]

\* Parse(sql), up to the call of p.parse()
Parse(sql) == NewParser(TrimSpace(sql))

\* the range loop takes the next statement and calls Parse
ParseManyCall ==
    /\ pc = "ParseMany"
    /\ idx < Len(sqls)
    /\ p' = Parse(sqls[idx + 1])
    /\ pc' = "doParse"
    /\ validated' = 0
    /\ UNCHANGED << sqls, idx, qs, scan, ret, out, calls >>

\* a faulty loop body: a failed statement is skipped and the loop goes on
ParseManyNextSkip(sql, q, err) ==
    IF ~ err.nil
    THEN /\ idx' = idx + 1
         /\ pc' = "ParseMany"
         /\ UNCHANGED << qs, out >>
    ELSE /\ qs' = Append(qs, q)
         /\ idx' = idx + 1
         /\ pc' = "ParseMany"
         /\ UNCHANGED out

\* what the loop does with the (q, err) of Parse
ParseManyNext(sql, q, err) ==
    IF ~ err.nil
    THEN /\ out' = [qs |-> qs, err |-> err]
         /\ pc' = "done"
         /\ UNCHANGED << idx, qs >>
    ELSE /\ qs' = Append(qs, q)
         /\ idx' = idx + 1
         /\ pc' = "ParseMany"
         /\ UNCHANGED out

ParseManyStep ==
    /\ pc = "returned"
    /\ ParseManyNext(sqls[idx + 1], ret.q, ret.err)
    /\ UNCHANGED << sqls, p, scan, ret, calls, validated >>

\* the range loop is over
ParseManyReturn ==
    /\ pc = "ParseMany"
    /\ idx >= Len(sqls)
    /\ out' = [qs |-> qs, err |-> NoError]
    /\ pc' = "done"
    /\ UNCHANGED << sqls, idx, qs, p, scan, ret, calls, validated >>

\* a faulty parse: validate runs whatever doParse returned
parseAlways(pp, q, err) == [q |-> q, err |-> validate(pp), validated |-> 1]

\* p.parse() after doParse returned (q, err): the (q, p.err) it returns, and the
\* number of times it ran validate
parse(pp, q, err) ==
    IF err.nil
    THEN [q |-> q, err |-> validate(pp), validated |-> 1]
    ELSE [q |-> q, err |-> err, validated |-> 0]

ParseReturn ==
    /\ pc = "parse"
    /\ LET r == parse(p, scan.q, scan.err)
       IN  /\ p' = [p EXCEPT !.err = r.err]
           /\ ret' = [q |-> r.q, err |-> r.err]
           /\ calls' = Append(calls, [sql |-> sqls[idx + 1], q |-> r.q, err |-> r.err])
           /\ validated' = validated + r.validated
    /\ pc' = "returned"
    /\ UNCHANGED << sqls, idx, qs, scan, out >>

(***************************************************************************)
(* doParse: an iteration of its loop                                       *)
(***************************************************************************)
AtStep(s) == pc = "doParse" /\ p.i < Len(p.sql) /\ p.step = s

\* the iteration ends: doParse goes on or returns (p.query, err)
Take(r) ==
    /\ p' = r.p
    /\ IF r.returned
       THEN pc' = "parse" /\ scan' = [q |-> r.p.query, err |-> r.err]
       ELSE pc' = "doParse" /\ UNCHANGED scan
    /\ UNCHANGED << sqls, idx, qs, ret, out, calls, validated >>

DoParseEnd ==
    /\ pc = "doParse"
    /\ p.i >= Len(p.sql)
    /\ pc' = "parse"
    /\ scan' = [q |-> p.query, err |-> p.err]
    /\ UNCHANGED << sqls, idx, qs, p, ret, out, calls, validated >>

StepType == AtStep("stepType") /\ Take(caseStepType(p))

StepSelectField == AtStep("stepSelectField") /\ Take(caseStepSelectField(p))

StepSelectComma == AtStep("stepSelectComma") /\ Take(caseStepSelectComma(p))

StepSelectFrom == AtStep("stepSelectFrom") /\ Take(caseStepSelectFrom(p))

StepSelectFromTable ==
    AtStep("stepSelectFromTable") /\ Take(caseStepSelectFromTable(p))

StepInsertTable == AtStep("stepInsertTable") /\ Take(caseStepInsertTable(p))

StepDeleteFromTable ==
    AtStep("stepDeleteFromTable") /\ Take(caseStepDeleteFromTable(p))

StepUpdateTable == AtStep("stepUpdateTable") /\ Take(caseStepUpdateTable(p))

StepUpdateSet == AtStep("stepUpdateSet") /\ Take(caseStepUpdateSet(p))

StepUpdateField == AtStep("stepUpdateField") /\ Take(caseStepUpdateField(p))

StepUpdateEquals == AtStep("stepUpdateEquals") /\ Take(caseStepUpdateEquals(p))

StepUpdateValue == AtStep("stepUpdateValue") /\ Take(caseStepUpdateValue(p))

StepUpdateComma == AtStep("stepUpdateComma") /\ Take(caseStepUpdateComma(p))

StepInsertFieldsOpeningParens ==
    AtStep("stepInsertFieldsOpeningParens")
    /\ Take(caseStepInsertFieldsOpeningParens(p))

StepInsertFields == AtStep("stepInsertFields") /\ Take(caseStepInsertFields(p))

StepInsertFieldsCommaOrClosingParens ==
    AtStep("stepInsertFieldsCommaOrClosingParens")
    /\ Take(caseStepInsertFieldsCommaOrClosingParens(p))

StepInsertValuesRWord ==
    AtStep("stepInsertValuesRWord") /\ Take(caseStepInsertValuesRWord(p))

StepInsertValuesOpeningParens ==
    AtStep("stepInsertValuesOpeningParens")
    /\ Take(caseStepInsertValuesOpeningParens(p))

StepInsertValues == AtStep("stepInsertValues") /\ Take(caseStepInsertValues(p))

StepInsertValuesCommaOrClosingParens ==
    AtStep("stepInsertValuesCommaOrClosingParens")
    /\ Take(caseStepInsertValuesCommaOrClosingParens(p))

StepInsertValuesCommaBeforeOpeningParens ==
    AtStep("stepInsertValuesCommaBeforeOpeningParens")
    /\ Take(caseStepInsertValuesCommaBeforeOpeningParens(p))

\* case stepWhere calls parseWhere in the same iteration
StepWhere ==
    /\ AtStep("stepWhere")
    /\ LET r == caseStepWhere(p)
       IN  /\ p' = r.p
           /\ IF r.returned
              THEN pc' = "parse" /\ scan' = [q |-> r.p.query, err |-> r.err]
              ELSE pc' = "parseWhere" /\ UNCHANGED scan
    /\ UNCHANGED << sqls, idx, qs, ret, out, calls, validated >>

(***************************************************************************)
(* parseWhere: an iteration of its loop.  doParse returns (p.query, err)   *)
(* when parseWhere returns ended or an error, and goes on otherwise.       *)
(***************************************************************************)
AtWhereStep(s) == pc = "parseWhere" /\ p.i < Len(p.sql) /\ p.step = s

TakeWhere(r) ==
    /\ p' = r.p
    /\ IF r.returned
       THEN IF r.ended \/ ~ r.err.nil
            THEN pc' = "parse" /\ scan' = [q |-> r.p.query, err |-> r.err]
            ELSE pc' = "doParse" /\ UNCHANGED scan
       ELSE pc' = "parseWhere" /\ UNCHANGED scan
    /\ UNCHANGED << sqls, idx, qs, ret, out, calls, validated >>

ParseWhereEnd ==
    /\ pc = "parseWhere"
    /\ p.i >= Len(p.sql)
    /\ TakeWhere(parseWhereAtEnd(p))

StepWhereField == AtWhereStep("stepWhereField") /\ TakeWhere(caseStepWhereField(p))

StepWhereOperator ==
    AtWhereStep("stepWhereOperator") /\ TakeWhere(caseStepWhereOperator(p))

StepWhereValue == AtWhereStep("stepWhereValue") /\ TakeWhere(caseStepWhereValue(p))

StepWhereAnd == AtWhereStep("stepWhereAnd") /\ TakeWhere(caseStepWhereAnd(p))

Next ==
    \/ ParseManyCall
    \/ ParseManyStep
    \/ ParseManyReturn
    \/ ParseReturn
    \/ DoParseEnd
    \/ StepType
    \/ StepSelectField
    \/ StepSelectComma
    \/ StepSelectFrom
    \/ StepSelectFromTable
    \/ StepInsertTable
    \/ StepDeleteFromTable
    \/ StepUpdateTable
    \/ StepUpdateSet
    \/ StepUpdateField
    \/ StepUpdateEquals
    \/ StepUpdateValue
    \/ StepUpdateComma
    \/ StepWhere
    \/ StepInsertFieldsOpeningParens
    \/ StepInsertFields
    \/ StepInsertFieldsCommaOrClosingParens
    \/ StepInsertValuesRWord
    \/ StepInsertValuesOpeningParens
    \/ StepInsertValues
    \/ StepInsertValuesCommaOrClosingParens
    \/ StepInsertValuesCommaBeforeOpeningParens
    \/ ParseWhereEnd
    \/ StepWhereField
    \/ StepWhereOperator
    \/ StepWhereValue
    \/ StepWhereAnd

Spec == Init /\ [][Next]_vars

(***************************************************************************)
(* A caller that calls Parse on one statement after the other, whatever    *)
(* the calls before returned: sqls are its statements and idx the number   *)
(* of calls made.                                                          *)
(***************************************************************************)
\* a keyword with its first letter only in upper case
Capitalised(s) == << s[1] >> \o Lower(Tail(s))

CapKeywords(s) ==
    [k \in 1..Len(s) |-> IF s[k] \in Keywords THEN Capitalised(s[k]) ELSE s[k]]

\* statements whose identifiers, table names and values have both cases
MixedSelect ==
    << wSELECT, << "a", "B" >>, wAS, << "V", "w" >>, << "," >>, << "C" >>, wFROM,
       Quoted(<< "T", "b" >>), wWHERE, << "C", "d" >>, << "=" >>,
       Quoted(<< "E", "f" >>), wAND, << "g" >>, << "<" >>, << "H", "i" >> >>

MixedUpdate ==
    << wUPDATE, Quoted(<< "T", "b" >>), wSET, << "C", "d" >>, << "=" >>,
       Quoted(<< "E", "f" >>), wWHERE, << "G" >>, << "!", "=" >>,
       Quoted(<< "h", "I" >>) >>

MixedInsert ==
    << wINSERT, wINTO, Quoted(<< "T", "b" >>), << "(" >>, << "C", "d" >>,
       << ")" >>, wVALUES, << "(" >>, Quoted(<< "E", "f" >>), << ")" >> >>

\* a statement cut after a keyword put in the place of one of its lexemes
KeywordAt(S) ==
    UNION { { Replaced(b, n, v, TRUE) : n \in 1..Len(b), v \in Keywords } : b \in S }

CaseBase ==
    Prefixes(Family) \cup KeywordAt(Canonical)
    \cup { MixedSelect, MixedUpdate, MixedInsert }

\* a statement, and the statement with the case of its keywords changed
CasePairs ==
    { << Join(b, << " " >>), Join(LowerKeywords(b), << " " >>) >> : b \in CaseBase }
    \cup { << Join(b, << " " >>), Join(CapKeywords(b), << " " >>) >> : b \in CaseBase }

\* the statements of the calls that are repeated
RepeatPool ==
    BatchPool
    \cup { Join(s, << " " >>) :
             s \in { InsertStatement(1, 1, 1, 1), UpdateStatement(1, 1),
                      << wSELECT, << "a" >>, << "," >> >>, << wINSERT, tableA >> } }

\* a statement parsed twice, with another call in between
Repeats == { << s, t, s >> : s \in RepeatPool, t \in RepeatPool }

InitCalls ==
    /\ \/ sqls \in CasePairs
       \/ sqls \in Repeats
    /\ idx = 0
    /\ qs = << >>
    /\ p = NewParser(<< >>)
    /\ pc = "Parse"
    /\ scan = NoResult
    /\ ret = NoResult
    /\ out = [qs |-> << >>, err |-> NoError]
    /\ calls = << >>
    /\ validated = 0

\* the caller calls Parse on its next statement
ParseCall ==
    /\ pc = "Parse"
    /\ idx < Len(sqls)
    /\ p' = Parse(sqls[idx + 1])
    /\ pc' = "doParse"
    /\ validated' = 0
    /\ UNCHANGED << sqls, idx, qs, scan, ret, out, calls >>

\* Parse has returned: the caller goes on to its next statement
ParseNext ==
    /\ pc = "returned"
    /\ idx' = idx + 1
    /\ pc' = "Parse"
    /\ UNCHANGED << sqls, qs, p, scan, ret, out, calls, validated >>

NextCalls ==
    \/ ParseCall
    \/ ParseNext
    \/ ParseReturn
    \/ DoParseEnd
    \/ StepType
    \/ StepSelectField
    \/ StepSelectComma
    \/ StepSelectFrom
    \/ StepSelectFromTable
    \/ StepInsertTable
    \/ StepDeleteFromTable
    \/ StepUpdateTable
    \/ StepUpdateSet
    \/ StepUpdateField
    \/ StepUpdateEquals
    \/ StepUpdateValue
    \/ StepUpdateComma
    \/ StepInsertFieldsOpeningParens
    \/ StepInsertFields
    \/ StepInsertFieldsCommaOrClosingParens
    \/ StepInsertValuesRWord
    \/ StepInsertValuesOpeningParens
    \/ StepInsertValues
    \/ StepInsertValuesCommaOrClosingParens
    \/ StepInsertValuesCommaBeforeOpeningParens
    \/ StepWhere
    \/ ParseWhereEnd
    \/ StepWhereField
    \/ StepWhereOperator
    \/ StepWhereValue
    \/ StepWhereAnd

SpecCalls == InitCalls /\ [][NextCalls]_vars

(***************************************************************************)
(* The properties.                                                         *)
(***************************************************************************)
errTableName == "table name cannot be empty"
errWhereMandatory == "at WHERE: WHERE clause is mandatory for UPDATE & DELETE"
errValueCount == "at INSERT INTO: value count doesn't match field count"
errNoOperator == "at WHERE: condition without operator"

\* C1: ParseMany parses the statements in input order.  When the first failing
\* statement is the k-th (from 0) it returns the queries of the k statements
\* before it, in order, with the error of statement k, and parses no statement
\* after it; when none fails it returns one query per statement and no error.
C1_ParseManyInOrder ==
    /\ Len(calls) <= Len(sqls)
    /\ \A j \in 1..Len(calls) : calls[j].sql = sqls[j]
    /\ \A j \in 1..(Len(calls) - 1) : calls[j].err.nil
    /\ pc = "done" =>
         LET k == Len(calls)
         IN  IF k > 0 /\ ~ calls[k].err.nil
             THEN /\ out.err = calls[k].err
                  /\ Len(out.qs) = k - 1
                  /\ \A j \in 1..(k - 1) : out.qs[j] = calls[j].q
             ELSE /\ k = Len(sqls)
                  /\ out.err.nil
                  /\ Len(out.qs) = k
                  /\ \A j \in 1..k : out.qs[j] = calls[j].q

\* a batch of three whose second statement fails: one query, the third unparsed
C1_Witness ==
    /\ pc = "done"
    /\ Len(sqls) = 3
    /\ Len(calls) = 2
    /\ ~ out.err.nil
    /\ Len(out.qs) = 1

\* C2: Parse never succeeds for an UPDATE or DELETE with no condition; an UPDATE
\* or DELETE with a table name and whose input ends before any WHERE keyword
\* fails with the error that WHERE is mandatory.
C2_WhereMandatory ==
    pc = "returned" =>
      /\ (ret.err.nil /\ ret.q.Type \in {"Update", "Delete"})
            => Len(ret.q.Conditions) >= 1
      /\ (/\ scan.err.nil
          /\ ret.q.Type \in {"Update", "Delete"}
          /\ ret.q.TableName # << >>
          /\ p.step \in {"stepUpdateSet", "stepUpdateField", "stepUpdateEquals",
                         "stepUpdateValue", "stepUpdateComma", "stepWhere"})
            => ret.err.msg = errWhereMandatory

\* UPDATE 'a' SET: the input ends after SET
C2_Witness ==
    /\ pc = "returned"
    /\ ret.q.Type = "Update"
    /\ ret.q.TableName # << >>
    /\ p.step = "stepUpdateField"
    /\ ret.err.msg = errWhereMandatory

\* the statement has the letters FROM somewhere in it
ContainsFROM(s) == \E k \in 0..(Len(s) - 4) : Slice(s, k, k + 4) = wFROM

\* C3: on success the Type is known, and either the TableName is not empty or
\* the statement is a SELECT with at least one field and no FROM keyword in
\* its input.
C3_TableNameOrBareSelect ==
    (pc = "returned" /\ ret.err.nil) =>
      /\ ret.q.Type # UnknownType
      /\ \/ ret.q.TableName # << >>
         \/ /\ ret.q.Type = "Select"
            /\ Len(ret.q.Fields) >= 1
            /\ ~ ContainsFROM(p.sqlUpper)

\* the row being closed by the next token is shorter than the column list
ClosesShortRow ==
    /\ AtStep("stepInsertValuesCommaOrClosingParens")
    /\ peek(p, FALSE).peeked = << ")" >>
    /\ Len(p.query.Inserts[Len(p.query.Inserts)]) < Len(p.query.Fields)

\* C4: a successful INSERT has at least one row and every row has as many
\* values as there are columns; a row closed with fewer values than columns
\* fails the scan with the value count error, and a scan that ends without
\* error with a row of another length than the column list fails with it too.
C4_InsertRows ==
    /\ [](pc = "returned" /\ ret.q.Type = "Insert" =>
            /\ ret.err.nil =>
                 /\ Len(ret.q.Inserts) >= 1
                 /\ \A k \in 1..Len(ret.q.Inserts) :
                        Len(ret.q.Inserts[k]) = Len(ret.q.Fields)
            /\ (/\ scan.err.nil
                /\ \E k \in 1..Len(ret.q.Inserts) :
                       Len(ret.q.Inserts[k]) # Len(ret.q.Fields))
                 => ret.err.msg = errValueCount)
    /\ [][ClosesShortRow => (pc' = "parse" /\ scan'.err.msg = errValueCount)]_vars

\* a row with more values than columns, refused when the scan is over
C4_Witness ==
    /\ pc = "returned"
    /\ ret.q.Type = "Insert"
    /\ scan.err.nil
    /\ \E k \in 1..Len(ret.q.Inserts) : Len(ret.q.Inserts[k]) > Len(ret.q.Fields)
    /\ ret.err.msg = errValueCount

\* C5: a successful SELECT has as many Aliases as Fields, and so has the query
\* of a SELECT between any two iterations of the scan.
C5_FieldsAliases ==
    /\ (pc \in {"doParse", "parseWhere"} /\ p.query.Type = "Select")
          => Len(p.query.Fields) = Len(p.query.Aliases)
    /\ (pc = "returned" /\ ret.err.nil /\ ret.q.Type = "Select")
          => Len(ret.q.Fields) = Len(ret.q.Aliases)

\* a successful SELECT of two fields, one with an alias and one without
C5_Witness ==
    /\ pc = "returned"
    /\ ret.err.nil
    /\ ret.q.Type = "Select"
    /\ Len(ret.q.Fields) = 2
    /\ \E k \in 1..2 : ret.q.Aliases[k] # << >>
    /\ \E k \in 1..2 : ret.q.Aliases[k] = << >>

\* C6: Parse never succeeds with a condition whose Operator is unknown; a WHERE
\* clause that ends right after the field of a condition fails with the error
\* of a condition without operator, in SELECT, UPDATE and DELETE alike.
C6_ConditionOperator ==
    pc = "returned" =>
      /\ ret.err.nil =>
           \A k \in 1..Len(ret.q.Conditions) :
               ret.q.Conditions[k].Operator # UnknownOperator
      /\ (scan.err.nil /\ p.step = "stepWhereOperator")
           => /\ ret.q.Type \in {"Select", "Update", "Delete"}
              /\ ret.err.msg = errNoOperator

\* a DELETE whose second condition has a field and nothing more
C6_Witness ==
    /\ pc = "returned"
    /\ ret.q.Type = "Delete"
    /\ Len(ret.q.Conditions) = 2
    /\ p.step = "stepWhereOperator"
    /\ ret.err.msg = errNoOperator

\* the statement of the Parse call in progress
CurrentSQL == sqls[idx + 1]

\* C7: Parse of an empty string, or of one made of whitespace only, fails with
\* 'query type cannot be empty', and its Query has Type unknown and nothing set.
C7_EmptyStatement ==
    (pc = "returned" /\ \A k \in 1..Len(CurrentSQL) : CurrentSQL[k] \in WhiteSpace)
      => /\ ret.err.msg = "query type cannot be empty"
         /\ ret.q = EmptyQuery

\* a statement of three whitespace characters
C7_Witness ==
    /\ pc = "returned"
    /\ Len(CurrentSQL) = 3
    /\ \A k \in 1..3 : CurrentSQL[k] \in WhiteSpace
    /\ ret.err.msg = "query type cannot be empty"

\* C8: when the scan reports an error Parse returns that very error, validate
\* does not run and the cursor stays where the scan failed; validate runs once,
\* and only when the scan ended without error, and its error is Parse's.
C8_ScanThenValidate ==
    /\ pc \in {"doParse", "parseWhere", "parse"} => validated = 0
    /\ pc = "returned" =>
         /\ ret.q = scan.q
         /\ ~ scan.err.nil =>
              /\ ret.err = scan.err
              /\ validated = 0
              /\ p.i = scan.err.pos
              /\ p.query = scan.q
         /\ scan.err.nil =>
              /\ validated = 1
              /\ ret.err = validate(p)

\* a scan that failed where validate would have said something else: the
\* UPDATE has no condition yet
C8_Witness ==
    /\ pc = "returned"
    /\ ~ scan.err.nil
    /\ ret.err = scan.err
    /\ ~ validate(p).nil
    /\ validate(p).msg # scan.err.msg
    /\ validated = 0

\* the first token of the statement, and the one after it
FirstToken == peek(p, TRUE).peeked
SecondToken == peek(pop(peek(p, TRUE)), TRUE).peeked

\* the iteration goes on with the Type and the step given
MovesTo(type, step) ==
    /\ pc' = "doParse"
    /\ p'.query.Type = type
    /\ p'.step = step

\* the iteration returns the error given and the Type stays unknown
FailsWith(msg, arg) ==
    /\ pc' = "parse"
    /\ scan'.err.msg = msg
    /\ scan'.err.arg = arg
    /\ scan'.err.pos = p'.i
    /\ scan'.q.Type = UnknownType
    /\ p'.query.Type = UnknownType
    /\ p'.step = "stepType"

\* C9 as the specification has it: in step Type a first token that is none of
\* SELECT, INSERT INTO, UPDATE, DELETE FROM fails with 'invalid query type';
\* otherwise the Type is set and the step follows.
C9_TypeDispatchOriginal ==
    [][AtStep("stepType") =>
         CASE FirstToken = wSELECT -> MovesTo("Select", "stepSelectField")
           [] FirstToken = wINSERT /\ SecondToken = wINTO ->
                MovesTo("Insert", "stepInsertTable")
           [] FirstToken = wUPDATE -> MovesTo("Update", "stepUpdateTable")
           [] FirstToken = wDELETE /\ SecondToken = wFROM ->
                MovesTo("Delete", "stepDeleteFromTable")
           [] OTHER -> FailsWith("invalid query type", << >>)]_vars

\* C9: in step Type a first token that is none of SELECT, INSERT, UPDATE, DELETE
\* fails with 'invalid query type'; INSERT not followed by INTO fails with
\* 'at INSERT: expected INTO, got' and DELETE not followed by FROM with
\* 'at DELETE: expected FROM, got', each with the token found; in the three the
\* Type stays unknown; otherwise the Type is set and the step follows.
C9_TypeDispatch ==
    [][AtStep("stepType") =>
         CASE FirstToken = wSELECT -> MovesTo("Select", "stepSelectField")
           [] FirstToken = wINSERT /\ SecondToken = wINTO ->
                MovesTo("Insert", "stepInsertTable")
           [] FirstToken = wUPDATE -> MovesTo("Update", "stepUpdateTable")
           [] FirstToken = wDELETE /\ SecondToken = wFROM ->
                MovesTo("Delete", "stepDeleteFromTable")
           [] FirstToken = wINSERT ->
                FailsWith("at INSERT: expected INTO, got %s", SecondToken)
           [] FirstToken = wDELETE ->
                FailsWith("at DELETE: expected FROM, got %s", SecondToken)
           [] OTHER -> FailsWith("invalid query type", << >>)]_vars

\* a DELETE followed by a token that is not FROM
C9_Witness ==
    /\ pc = "parse"
    /\ scan.err.msg = "at DELETE: expected FROM, got %s"
    /\ scan.err.arg # << >>
    /\ scan.q.Type = UnknownType

\* C10: an input that ends right after the statement keyword, with no table
\* name and no field read, fails with 'table name cannot be empty', whatever
\* the checks after it would say.
C10_TableNameFirst ==
    (/\ pc = "returned"
     /\ scan.err.nil
     /\ ret.q.TableName = << >>
     /\ ret.q.Fields = << >>
     /\ p.step \in {"stepSelectField", "stepUpdateTable", "stepDeleteFromTable",
                    "stepInsertTable"})
      => ret.err.msg = errTableName

\* INSERT INTO and nothing more: the check of the rows would fail too
C10_Witness ==
    /\ pc = "returned"
    /\ p.step = "stepInsertTable"
    /\ ~ checkInsertRows(p).nil
    /\ ret.err.msg = errTableName

\* the scan is over the whole input, which ends with the WHERE keyword, and no
\* condition was read
EndsAfterWHERE ==
    /\ pc = "returned"
    /\ p.step = "stepWhereField"
    /\ Len(ret.q.Conditions) = 0
    /\ p.i >= Len(p.sql)
    /\ Len(p.sqlUpper) >= 5
    /\ Slice(p.sqlUpper, Len(p.sqlUpper) - 5, Len(p.sqlUpper)) = wWHERE

\* C11: when the input ends right after the WHERE keyword, with no condition,
\* Parse fails with 'at WHERE: empty WHERE clause' in SELECT, UPDATE and DELETE
\* alike; UPDATE and DELETE do not get the WHERE-mandatory error instead.
C11_EmptyWhere ==
    EndsAfterWHERE =>
      /\ ret.q.Type \in {"Select", "Update", "Delete"}
      /\ ret.err.msg = "at WHERE: empty WHERE clause"
      /\ ret.err.pos = Len(p.sql)

\* UPDATE 'a' SET b = 'v1' WHERE and nothing more
C11_Witness ==
    /\ EndsAfterWHERE
    /\ ret.q.Type = "Update"
    /\ ret.q.Updates # << >>
    /\ ret.err.msg = "at WHERE: empty WHERE clause"

errNeedRow == "at INSERT INTO: need at least one row to insert"

\* C12: an INSERT whose input ends after the table name and before the first row
\* of values is opened (after the table name, after the opening parenthesis,
\* after a column, after the closing parenthesis of the columns or after VALUES)
\* fails with 'at INSERT INTO: need at least one row to insert'.
C12_InsertNeedsRow ==
    (/\ pc = "returned"
     /\ scan.err.nil
     /\ ret.q.Type = "Insert"
     /\ ret.q.TableName # << >>)
      => /\ p.step \in {"stepInsertFieldsOpeningParens", "stepInsertFields",
                        "stepInsertFieldsCommaOrClosingParens",
                        "stepInsertValuesRWord"}
              => (ret.q.Inserts = << >> /\ ret.err.msg = errNeedRow)
         /\ (p.step = "stepInsertValuesOpeningParens" /\ ret.q.Inserts = << >>)
              => ret.err.msg = errNeedRow

\* INSERT INTO 'a' (b, c) VALUES and nothing more
C12_Witness ==
    /\ pc = "returned"
    /\ scan.err.nil
    /\ ret.q.Type = "Insert"
    /\ p.step = "stepInsertValuesOpeningParens"
    /\ Len(ret.q.Fields) = 2
    /\ ret.q.Inserts = << >>
    /\ ret.err.msg = errNeedRow

\* the token at the cursor, as peek reads it, and what it is in the input
TokenHere == peek(p, FALSE).peeked
QuotedHere == p.i < Len(p.sql) /\ At(p.sql, p.i) = "'"
ReservedHere == reservedWords(ToUpper(TokenHere)) # "rUnknown"
NumberHere == TokenHere # << >> /\ TokenHere[1] \in Digits \cup {"-"}

\* C13: in the column list of an INSERT a token that is an asterisk, a reserved
\* word, a quoted string, a number or empty is refused with 'at INSERT INTO:
\* expected at least one field to insert' and is not appended to Fields.
C13_InsertColumnsPlain ==
    [][(/\ AtStep("stepInsertFields")
        /\ \/ TokenHere = << "*" >>
           \/ ReservedHere
           \/ QuotedHere
           \/ NumberHere
           \/ TokenHere = << >>)
         => /\ pc' = "parse"
            /\ scan'.err.msg = "at INSERT INTO: expected at least one field to insert"
            /\ p'.query.Fields = p.query.Fields]_vars

errSelectField == "at SELECT: expected field to SELECT"

\* C14: in the field list of a SELECT a comma is followed by a field: when the
\* input ends after the comma, or what follows is a reserved word, a number or
\* no token at all, Parse fails with 'at SELECT: expected field to SELECT'; so
\* does SELECT followed at once by FROM.
C14_SelectCommaField ==
    /\ [](/\ pc = "returned"
          /\ scan.err.nil
          /\ ret.q.Type = "Select"
          /\ Len(ret.q.Fields) >= 1
          /\ p.step = "stepSelectField"
          => ret.err.msg = errSelectField)
    /\ [][(/\ AtStep("stepSelectField")
           /\ ~ QuotedHere
           /\ (ReservedHere \/ NumberHere \/ TokenHere = << >>))
            => (pc' = "parse" /\ scan'.err.msg = errSelectField)]_vars

\* the name and the alias of the k-th field of the SELECT statements
FieldName(k) == SelectField(k)[1]
FieldAlias(k) == IF Len(SelectField(k)) = 3 THEN SelectField(k)[3] ELSE << >>

\* the SELECT of nf fields and no FROM, spaced or tight
BareSelects(nf) ==
    { Join(SelectStatement(nf, FALSE, 0), << " " >>),
      JoinTight(SelectStatement(nf, FALSE, 0)) }

\* C15: a SELECT that is a field list and no FROM clause parses with success:
\* Type Select, the fields in their order, an empty TableName.
C15_SelectWithoutFrom ==
    pc = "returned" =>
      /\ (scan.err.nil /\ ret.q.Type = "Select" /\ p.step = "stepSelectComma")
           => /\ ret.err.nil
              /\ Len(ret.q.Fields) >= 1
              /\ ret.q = [EmptyQuery EXCEPT !.Type = "Select",
                                            !.Fields = ret.q.Fields,
                                            !.Aliases = ret.q.Aliases]
      /\ \A nf \in 1..MaxFields :
           CurrentSQL \in BareSelects(nf)
             => /\ ret.err.nil
                /\ ret.q.Type = "Select"
                /\ ret.q.TableName = << >>
                /\ ret.q.Fields = [k \in 1..nf |-> FieldName(k)]
                /\ ret.q.Aliases = [k \in 1..nf |-> FieldAlias(k)]

\* SELECT a , f(a) AS v
C15_Witness ==
    /\ pc = "returned"
    /\ CurrentSQL = Join(SelectStatement(2, FALSE, 0), << " " >>)
    /\ ret.err.nil
    /\ ret.q.Fields = << << "a" >>, << "f", "(", "a", ")" >> >>
    /\ ret.q.TableName = << >>

\* the caller has made all its calls
CallsMade == pc = "Parse" /\ idx = Len(sqls)

\* C16: changing the letter case of the keywords of a statement does not change
\* what Parse returns, and the case of identifiers, table names and values is
\* kept as it is in the statement.
C16_KeywordCase ==
    CallsMade =>
      /\ sqls \in CasePairs
           => (calls[1].q = calls[2].q /\ calls[1].err = calls[2].err)
      /\ sqls[1] = Join(MixedSelect, << " " >>)
           => /\ calls[1].err.nil
              /\ calls[1].q.Fields = << << "a", "B" >>, << "C" >> >>
              /\ calls[1].q.Aliases = << << "V", "w" >>, << >> >>
              /\ calls[1].q.TableName = << "T", "b" >>
              /\ calls[1].q.Conditions[1].Operand1 = << "C", "d" >>
              /\ calls[1].q.Conditions[1].Operand2 = << "E", "f" >>
              /\ calls[1].q.Conditions[2].Operand2 = << "H", "i" >>
      /\ sqls[1] = Join(MixedUpdate, << " " >>)
           => /\ calls[1].err.nil
              /\ calls[1].q.TableName = << "T", "b" >>
              /\ DOMAIN calls[1].q.Updates = { << "C", "d" >> }
              /\ calls[1].q.Updates[<< "C", "d" >>] = << "E", "f" >>
              /\ calls[1].q.Conditions[1].Operand1 = << "G" >>
              /\ calls[1].q.Conditions[1].Operand2 = << "h", "I" >>
      /\ sqls[1] = Join(MixedInsert, << " " >>)
           => /\ calls[1].err.nil
              /\ calls[1].q.TableName = << "T", "b" >>
              /\ calls[1].q.Fields = << << "C", "d" >> >>
              /\ calls[1].q.Inserts = << << << "E", "f" >> >> >>

\* C17: Parse is deterministic and keeps no state from one call to the next: two
\* calls on the same text return equal Query values and equal errors, whatever
\* was parsed in between.
C17_Deterministic ==
    \A i \in 1..Len(calls) : \A j \in 1..Len(calls) :
        calls[i].sql = calls[j].sql
          => (calls[i].q = calls[j].q /\ calls[i].err = calls[j].err)

\* a statement parsed with success before and after a failing call on another
C17_Witness ==
    /\ CallsMade
    /\ Len(calls) = 3
    /\ calls[1].sql = calls[3].sql
    /\ calls[1].sql # calls[2].sql
    /\ calls[1].err.nil
    /\ ~ calls[2].err.nil
    /\ calls[2].q.TableName # << >>
    /\ calls[3].q = calls[1].q

\* the query of a Parse call that returned no error
Succeeded == pc = "returned" /\ ret.err.nil

C19_SuccessAtEnd == Succeeded => p.i >= Len(p.sql)

\* C20: in step UpdateValue the value is a quoted literal that begins with a
\* quote at the offset of the scan; any other token there fails with 'at UPDATE:
\* expected quoted value' and adds nothing to Updates.
C20_UpdateValueQuoted ==
    [][(AtStep("stepUpdateValue") /\ ~ QuotedHere)
         => /\ pc' = "parse"
            /\ scan'.err.msg = "at UPDATE: expected quoted value"
            /\ p'.query.Updates = p.query.Updates]_vars


\* C21: in step InsertValues every value of a row is a quoted literal that
\* begins with a quote at the offset of the scan; any other token there fails
\* with 'at INSERT INTO: expected quoted value' and appends nothing to the row.
C21_InsertValueQuoted ==
    [][(AtStep("stepInsertValues") /\ ~ QuotedHere)
         => /\ pc' = "parse"
            /\ scan'.err.msg = "at INSERT INTO: expected quoted value"
            /\ p'.query.Inserts = p.query.Inserts]_vars


\* C22: Parse returns no error for an INSERT only if the scan ended just after
\* the closing parenthesis of a row of values, in step
\* InsertValuesCommaBeforeOpeningParens: a last row that is not closed, or a
\* comma after the last row, is an error.
C22_InsertEndsAfterRow ==
    (Succeeded /\ ret.q.Type = "Insert")
      => p.step = "stepInsertValuesCommaBeforeOpeningParens"


\* C23: Parse returns no error only if every AND of the WHERE clause was
\* followed by a whole condition: the scan of a success never ends in step
\* WhereField after a condition, where the last token taken was AND.
C23_NoTrailingAnd ==
    (Succeeded /\ Len(ret.q.Conditions) >= 1) => p.step # "stepWhereField"


errEmptyRight == "at WHERE: condition with empty right side operand"

LastCondition == p'.query.Conditions[Len(p'.query.Conditions)]

\* a quote at the cursor with its closing quote further on
QuotedLiteralHere == QuotedHere /\ peekQuotedStringWithLength(p, FALSE).n > 0

\* the step went on to the next step with the operand o of kind k
WhereStepGivesOperand2(o, k) ==
    /\ pc' = "parseWhere"
    /\ p'.step = "stepWhereAnd"
    /\ LastCondition.Operand2 = o
    /\ LastCondition.Operand2Type = k

errWhereValue == "at WHERE: expected quoted value"

\* C25: in step WhereValue the token on the right is recorded by its kind: a
\* quoted literal as Operand2 of kind Quoted with the text between the quotes,
\* an identifier as kind Field, a number as kind Number; an operator, a
\* parenthesis, a reserved word (AND among them), an unterminated quote or no
\* token fails with 'at WHERE: expected quoted value'.
C25_WhereValueKinds ==
    [][AtWhereStep("stepWhereValue")
         => IF QuotedLiteralHere
            THEN WhereStepGivesOperand2(peekQuotedStringWithLength(p, FALSE).s, OpQuoted)
            ELSE IF \/ ReservedHere
                    \/ ToUpper(TokenHere) = wAND
                    \/ TokenHere = << >>
            THEN pc' = "parse" /\ scan'.err.msg = errWhereValue
            ELSE IF isIdentifier(TokenHere).id
            THEN WhereStepGivesOperand2(TokenHere, OpField)
            ELSE IF isIdentifier(TokenHere).num
            THEN WhereStepGivesOperand2(TokenHere, OpNumber)
            ELSE pc' = "parse" /\ scan'.err.msg = errWhereValue]_vars


\* the operator a token of the WHERE clause stands for
OperatorNamed(token) ==
    CASE token = << "=" >>      -> "Eq"
      [] token = << "!", "=" >> -> "Ne"
      [] token = << "<" >>      -> "Lt"
      [] token = << "<", "=" >> -> "Lte"
      [] token = << ">" >>      -> "Gt"
      [] token = << ">", "=" >> -> "Gte"
      [] OTHER                  -> UnknownOperator

\* the two bytes at the cursor are <=, >= or !=, and no symbol follows them
TwoCharOperatorHere ==
    /\ p.i + 1 < Len(p.sql)
    /\ At(p.sql, p.i) \in {"<", ">", "!"}
    /\ At(p.sql, p.i + 1) = "="
    /\ (p.i + 2 < Len(p.sql) => At(p.sql, p.i + 2) \notin reservedSymbols)

errUnknownOperator == "at WHERE: unknown operator"

\* C26: in step WhereOperator the tokens =, !=, <, <=, >, >= give the operators
\* Eq, Ne, Lt, Lte, Gt, Gte, an operator of two characters being read as one
\* token; any other token, a quoted string among them, fails with 'at WHERE:
\* unknown operator' and leaves the Operator of the last condition unknown.
C26_WhereOperators ==
    [][AtWhereStep("stepWhereOperator")
         => /\ TwoCharOperatorHere => Len(TokenHere) = 2
            /\ IF ~ QuotedHere /\ OperatorNamed(TokenHere) # UnknownOperator
               THEN /\ pc' = "parseWhere"
                    /\ p'.step = "stepWhereValue"
                    /\ LastCondition.Operator = OperatorNamed(TokenHere)
                    /\ p'.i >= p.i + Len(TokenHere)
               ELSE /\ pc' = "parse"
                    /\ scan'.err.msg = errUnknownOperator
                    /\ LastCondition.Operator = UnknownOperator]_vars


\* s spells one of the words of the set, in any letter case
SpellsOneOf(s, words) == ToUpper(s) \in words

\* a name the query holds as a field, an alias, a column or a field operand
NamesOf(q) ==
    { q.Fields[k] : k \in 1..Len(q.Fields) }
    \cup { q.Aliases[k] : k \in 1..Len(q.Aliases) }
    \cup DOMAIN q.Updates
    \cup { q.Conditions[k].Operand1 :
             k \in { j \in 1..Len(q.Conditions) :
                       q.Conditions[j].Operand1Type = OpField } }

\* C27: a reserved word, in any letter case (SELECT, INSERT, INTO, VALUES,
\* UPDATE, DELETE, WHERE, FROM, SET, AS, AND), is never taken as a field of a
\* SELECT, an alias, a column of an INSERT or of an UPDATE, or the field
\* operand of a condition.
C27_ReservedNotIdentifier ==
    \A name \in NamesOf(p.query) : ~ SpellsOneOf(name, Keywords)


\* the steps of doParse that read a keyword and nothing else
KeywordSteps ==
    { "stepType", "stepSelectFrom", "stepUpdateSet", "stepWhere",
      "stepInsertValuesRWord" }

\* C28: a quoted literal is never read as a keyword: when a step that expects a
\* keyword (the statement type, FROM, SET, WHERE, VALUES, AND) finds a quoted
\* string at the offset of the scan, whatever its contents spell, the parse
\* fails there.
C28_QuotedNotKeyword ==
    [][(/\ QuotedHere
        /\ \/ \E s \in KeywordSteps : AtStep(s)
           \/ AtWhereStep("stepWhereAnd"))
         => (pc' = "parse" /\ ~ scan'.err.nil)]_vars


\* a Parse call is under way or has just returned
InParse == pc \in {"doParse", "parseWhere", "parse", "returned"}

\* C29: all through a parse the offset of the scan never decreases and stays
\* between 0 and the length of the trimmed statement; an error of the scan has
\* as position the offset at which the scan stopped, an error of validate the
\* last offset of the scan, and Parse returns the error with that position.
C29_OffsetAndPos ==
    /\ [](/\ p.i \in 0..Len(p.sql)
          /\ InParse => p.sql = TrimSpace(CurrentSQL)
          /\ (pc \in {"parse", "returned"} /\ ~ scan.err.nil)
               => scan.err.pos = p.i
          /\ (pc = "returned" /\ ~ ret.err.nil)
               => /\ ret.err.pos = p.i
                  /\ ~ scan.err.nil => ret.err = scan.err
                  /\ scan.err.nil => ret.err = validate(p))
    /\ [][(pc \in {"doParse", "parseWhere"})
            => (p'.i >= p.i /\ p'.sql = p.sql)]_vars

\* an error of the scan in the middle of a statement, after leading text
C29_Witness ==
    /\ pc = "returned"
    /\ ~ scan.err.nil
    /\ ret.err = scan.err
    /\ ret.err.pos = p.i
    /\ p.i > 0
    /\ p.i < Len(p.sql)
    /\ p.step = "stepWhereOperator"


(***************************************************************************)
(* The program runs on: a step of Next is taken again and again until      *)
(* ParseMany has returned.  This is WF_vars(Next), with the fact that Next *)
(* is enabled in every state but the last written out (NextEnabled).       *)
(***************************************************************************)
Fairness == []<>(pc = "done") \/ []<><<Next>>_vars

SpecLive == Init /\ [][Next]_vars /\ Fairness

\* the steps of the two loops
DoParseSteps ==
    { "stepType", "stepSelectField", "stepSelectComma", "stepSelectFrom",
      "stepSelectFromTable", "stepInsertTable", "stepDeleteFromTable",
      "stepUpdateTable", "stepUpdateSet", "stepUpdateField", "stepUpdateEquals",
      "stepUpdateValue", "stepUpdateComma", "stepWhere",
      "stepInsertFieldsOpeningParens", "stepInsertFields",
      "stepInsertFieldsCommaOrClosingParens", "stepInsertValuesRWord",
      "stepInsertValuesOpeningParens", "stepInsertValues",
      "stepInsertValuesCommaOrClosingParens",
      "stepInsertValuesCommaBeforeOpeningParens" }

WhereSteps ==
    { "stepWhereField", "stepWhereOperator", "stepWhereValue", "stepWhereAnd" }

\* the guard of one of the actions of Next holds
NextEnabled ==
    \/ pc \in {"ParseMany", "parse", "returned"}
    \/ pc = "doParse" /\ (p.i >= Len(p.sql) \/ p.step \in DoParseSteps)
    \/ pc = "parseWhere" /\ (p.i >= Len(p.sql) \/ p.step \in WhereSteps)

\* an iteration of a scan loop that goes on to another iteration
Iterates == pc \in {"doParse", "parseWhere"} /\ pc' \in {"doParse", "parseWhere"}

\* a quote at the cursor with no closing quote: a token of length zero
UnterminatedHere == QuotedHere /\ ~ QuotedLiteralHere

\* C30: Parse terminates: an iteration of the loop of doParse or of parseWhere
\* returns or moves the offset of the scan forward, but for one iteration at an
\* unterminated quote (in step WhereField or WhereValue), which changes the
\* step and is followed by an iteration that returns; so every scan that has
\* begun comes to the return of Parse.
C30_Terminates ==
    /\ [][(Iterates /\ p'.i = p.i)
            => /\ UnterminatedHere
               /\ p.step \in {"stepWhereField", "stepWhereValue"}
               /\ p'.step \in {"stepWhereOperator", "stepWhereAnd"}]_vars
    /\ [][(/\ pc = "parseWhere"
           /\ p.step \in {"stepWhereOperator", "stepWhereAnd"}
           /\ UnterminatedHere)
            => pc' = "parse"]_vars
    /\ [](pc # "done" => NextEnabled)
    /\ (pc \in {"doParse", "parseWhere"}) ~> (pc = "returned")

\* the one iteration that does not move the offset has been made
C30_Witness ==
    /\ pc = "parseWhere"
    /\ p.step = "stepWhereAnd"
    /\ UnterminatedHere
    /\ Len(p.query.Conditions) = 2
    /\ p.query.Conditions[2].Operand2Type = OpQuoted
    /\ p.query.Conditions[2].Operand2 = << >>


\* the steps of each type of statement
SelectSteps ==
    { "stepSelectField", "stepSelectComma", "stepSelectFrom",
      "stepSelectFromTable" }

InsertSteps ==
    { "stepInsertTable", "stepInsertFieldsOpeningParens", "stepInsertFields",
      "stepInsertFieldsCommaOrClosingParens", "stepInsertValuesRWord",
      "stepInsertValuesOpeningParens", "stepInsertValues",
      "stepInsertValuesCommaOrClosingParens",
      "stepInsertValuesCommaBeforeOpeningParens" }

UpdateSteps ==
    { "stepUpdateTable", "stepUpdateSet", "stepUpdateField", "stepUpdateEquals",
      "stepUpdateValue", "stepUpdateComma" }

StepsOfType(type) ==
    CASE type = "Select" -> SelectSteps \cup {"stepWhere"} \cup WhereSteps
      [] type = "Insert" -> InsertSteps
      [] type = "Update" -> UpdateSteps \cup {"stepWhere"} \cup WhereSteps
      [] type = "Delete" -> {"stepDeleteFromTable", "stepWhere"} \cup WhereSteps
      [] OTHER           -> {"stepType"}

\* between two iterations of a scan loop
AtBoundary == pc \in {"doParse", "parseWhere"}

\* C31: between any two iterations of the scan the step agrees with the Type
\* of the query: the Type is unknown exactly in step Type, it is assigned once
\* and not again, and afterwards the step is one of the steps of that type of
\* statement, the steps of the WHERE clause among them for SELECT, UPDATE and
\* DELETE and never for INSERT.
C31_StepAgreesWithType ==
    /\ [](AtBoundary
            => /\ p.query.Type = UnknownType <=> p.step = "stepType"
               /\ p.step \in StepsOfType(p.query.Type)
               /\ pc = "parseWhere" => p.step \in WhereSteps)
    /\ [][(AtBoundary /\ p.query.Type # UnknownType)
            => p'.query.Type = p.query.Type]_vars

\* an UPDATE in its WHERE clause
C31_Witness ==
    /\ pc = "parseWhere"
    /\ p.query.Type = "Update"
    /\ p.step = "stepWhereValue"
    /\ Len(p.query.Conditions) = 2


\* the components of a query that a statement of its type never sets are empty
OwnComponentsOnly(q) ==
    CASE q.Type = "Select" -> q.Updates = << >> /\ q.Inserts = << >>
      [] q.Type = "Insert" ->
           q.Conditions = << >> /\ q.Updates = << >> /\ q.Aliases = << >>
      [] q.Type = "Update" ->
           q.Fields = << >> /\ q.Aliases = << >> /\ q.Inserts = << >>
      [] q.Type = "Delete" ->
           /\ q.Fields = << >> /\ q.Aliases = << >>
           /\ q.Updates = << >> /\ q.Inserts = << >>
      [] OTHER -> q = EmptyQuery

\* C32: a statement fills only the components of the query that belong to its
\* type, whether Parse succeeds or fails: a SELECT no Updates and no Inserts,
\* an INSERT no Conditions, Updates or Aliases, an UPDATE no Fields, Aliases or
\* Inserts, a DELETE no Fields, Aliases, Updates or Inserts.
C32_OwnComponentsOnly ==
    /\ InParse => OwnComponentsOnly(p.query)
    /\ pc = "returned" => OwnComponentsOnly(ret.q)

\* an INSERT that failed after two columns and a row were read
C32_Witness ==
    /\ pc = "returned"
    /\ ~ ret.err.nil
    /\ ret.q.Type = "Insert"
    /\ Len(ret.q.Fields) = 2
    /\ Len(ret.q.Inserts) >= 1
    /\ ret.q.Conditions = << >>


errExpectedWhere == "expected WHERE"

\* the SELECT of nf fields from a table and nothing more, spaced or tight
SelectsFromTable(nf) ==
    { Join(SelectStatement(nf, TRUE, 0), << " " >>),
      JoinTight(SelectStatement(nf, TRUE, 0)) }

\* C33: the WHERE clause of a SELECT is optional: a SELECT that ends after the
\* table name succeeds with no Conditions; and in step Where, after the table
\* name of a SELECT or of a DELETE, every token that is not the keyword WHERE,
\* in any letter case, fails with 'expected WHERE'.
C33_WhereOptionalForSelect ==
    /\ [](pc = "returned"
            => /\ (/\ scan.err.nil
                   /\ ret.q.Type = "Select"
                   /\ p.step = "stepWhere"
                   /\ ret.q.TableName # << >>)
                    => (ret.err.nil /\ ret.q.Conditions = << >>)
               /\ \A nf \in 1..MaxFields :
                    CurrentSQL \in SelectsFromTable(nf)
                      => /\ ret.err.nil
                         /\ ret.q.Conditions = << >>
                         /\ Len(ret.q.Fields) = nf)
    /\ [][(/\ AtStep("stepWhere")
           /\ p.query.Type \in {"Select", "Delete"}
           /\ (QuotedHere \/ ToUpper(TokenHere) # wWHERE))
            => (pc' = "parse" /\ scan'.err.msg = errExpectedWhere)]_vars


\* s is the beginning of t
IsPrefix(s, t) == Len(s) <= Len(t) /\ SubSeq(t, 1, Len(s)) = s

\* the text between the quotes of a quoted lexeme
Unquoted(lexeme) == SubSeq(lexeme, 2, Len(lexeme) - 1)

\* the condition Parse is to return for the k-th condition of a WHERE clause
ExpectedCondition(k) ==
    LET c == WhereCondition(k)
    IN  [ Operand1     |-> c[1],
          Operand1Type |-> OpField,
          Operator     |-> OperatorNamed(c[2]),
          Operand2     |-> IF k % 3 = 1 THEN Unquoted(c[3]) ELSE c[3],
          Operand2Type |-> CASE k % 3 = 1 -> OpQuoted
                             [] k % 3 = 2 -> OpNumber
                             [] OTHER     -> OpField ]

\* the statement, with a space between every two lexemes or with none to spare
Written(statement) == { Join(statement, << " " >>), JoinTight(statement) }

\* C34: Fields, Conditions and the rows and values of Inserts are returned in
\* the order of their tokens in the statement, none dropped, doubled or moved:
\* the scan only appends to them, and a SELECT of nf fields and nc conditions
\* and an INSERT of nf columns and nr rows return exactly those, in order.
C34_InputOrder ==
    /\ [](pc = "returned"
            => /\ \A nf \in 1..MaxFields : \A nc \in 0..MaxConds :
                    CurrentSQL \in Written(SelectStatement(nf, TRUE, nc))
                      => /\ ret.err.nil
                         /\ ret.q.Fields = [k \in 1..nf |-> FieldName(k)]
                         /\ ret.q.Conditions = [k \in 1..nc |-> ExpectedCondition(k)]
               /\ \A nf \in 1..MaxFields : \A nr \in 1..MaxRows :
                    CurrentSQL = Join(InsertStatement(nf, nr, 1, nf), << " " >>)
                      => /\ ret.err.nil
                         /\ ret.q.Fields = [c \in 1..nf |-> Letter(c + 1)]
                         /\ ret.q.Inserts =
                              [r \in 1..nr |-> [c \in 1..nf |-> Digit(r) \o Digit(c)]])
    /\ [][AtBoundary
            => /\ IsPrefix(p.query.Fields, p'.query.Fields)
               /\ Len(p'.query.Fields) <= Len(p.query.Fields) + 1
               /\ Len(p'.query.Conditions) \in
                    { Len(p.query.Conditions), Len(p.query.Conditions) + 1 }
               /\ \A k \in 1..(Len(p.query.Conditions) - 1) :
                    p'.query.Conditions[k] = p.query.Conditions[k]
               /\ Len(p'.query.Inserts) \in
                    { Len(p.query.Inserts), Len(p.query.Inserts) + 1 }
               /\ \A r \in 1..Len(p.query.Inserts) :
                    /\ IsPrefix(p.query.Inserts[r], p'.query.Inserts[r])
                    /\ r < Len(p.query.Inserts)
                         => p'.query.Inserts[r] = p.query.Inserts[r]]_vars

\* an INSERT of two columns and two rows has returned
C34_Witness ==
    /\ pc = "returned"
    /\ CurrentSQL = Join(InsertStatement(2, 2, 1, 2), << " " >>)
    /\ ret.err.nil
    /\ ret.q.Inserts = << << << "1", "1" >>, << "1", "2" >> >>,
                          << << "2", "1" >>, << "2", "2" >> >> >>


\* the column and the value of the k-th assignment of the UPDATE statements
AssignedColumn(k) == UpdateAssignment(k)[1]
AssignedValue(k) == Unquoted(UpdateAssignment(k)[3])

\* the map an UPDATE of ns assignments is to return: for each column the value
\* of the last assignment to it
ExpectedUpdates(ns) ==
    [col \in { AssignedColumn(k) : k \in 1..ns } |->
        LET ks == { k \in 1..ns : AssignedColumn(k) = col }
        IN  AssignedValue(CHOOSE k \in ks : \A j \in ks : j <= k)]

\* C35: a successful UPDATE returns in Updates, for each column assigned, the
\* literal of its assignment, and when a column is assigned more than once the
\* literal of the last one: there are as many entries as distinct columns.
C35_UpdatesLastWins ==
    pc = "returned" =>
      \A ns \in 1..(MaxFields + 1) : \A nc \in 1..MaxConds :
          CurrentSQL = Join(UpdateStatement(ns, nc), << " " >>)
            => /\ ret.err.nil
               /\ ret.q.Updates = ExpectedUpdates(ns)
               /\ Cardinality(DOMAIN ret.q.Updates) =
                    Cardinality({ AssignedColumn(k) : k \in 1..ns })

\* the column b assigned twice: the second value is the one returned
C35_Witness ==
    /\ pc = "returned"
    /\ CurrentSQL = Join(UpdateStatement(MaxFields + 1, 1), << " " >>)
    /\ ret.err.nil
    /\ \E k \in 1..MaxFields : \E j \in (k + 1)..(MaxFields + 1) :
          /\ AssignedColumn(k) = AssignedColumn(j)
          /\ ret.q.Updates[AssignedColumn(k)] # AssignedValue(k)
    /\ Cardinality(DOMAIN ret.q.Updates) < MaxFields + 1


\* C36: every successful UPDATE has at least one entry in Updates: the WHERE
\* clause of an UPDATE is entered only from step UpdateValue, after a value
\* was stored, never right after the table name or after SET.
C36_UpdateHasAssignment ==
    /\ []((Succeeded /\ ret.q.Type = "Update")
            => Cardinality(DOMAIN ret.q.Updates) >= 1)
    /\ []((AtBoundary /\ p.query.Type = "Update"
           /\ p.step \in {"stepWhere"} \cup WhereSteps)
            => Cardinality(DOMAIN p.query.Updates) >= 1)
    /\ [][(AtBoundary /\ p.query.Type = "Update" /\ p'.step = "stepWhere"
           /\ p.step # "stepWhere")
            => (p.step = "stepUpdateValue" /\ p.nextUpdateField # << >>
                /\ p.nextUpdateField \in DOMAIN p'.query.Updates)]_vars

\* an UPDATE of one assignment has returned with success
C36_Witness ==
    /\ Succeeded
    /\ ret.q.Type = "Update"
    /\ Cardinality(DOMAIN ret.q.Updates) = 1
    /\ Len(ret.q.Conditions) >= 1


\* the token has the shape of a name (an identifier, a function call or an
\* asterisk) and is not a reserved word
IsName(token) == isIdentifierOrAsterisk(token).id /\ ToUpper(token) \notin Keywords

\* the scan is in stepSelectField, at a field that AS follows
FieldThenAS ==
    /\ AtStep("stepSelectField")
    /\ isIdentifierOrAsterisk(TokenHere).id
    /\ peek(pop(peek(p, FALSE)), TRUE).peeked = wAS

\* the parser at the token after that AS: the token and whether it is quoted
AliasToken == peek(pop(peek(pop(peek(p, FALSE)), TRUE)), FALSE)

\* C37: the i-th entry of Aliases belongs to the i-th entry of Fields: the
\* identifier after the AS of that field, or the empty string when the field
\* has no AS; an AS that no identifier follows is an error, and no alias is
\* recorded for it.
C37_AliasOfField ==
    /\ [](pc = "returned"
            => \A nf \in 1..MaxFields :
                 CurrentSQL \in Written(SelectStatement(nf, TRUE, 0))
                   => /\ ret.err.nil
                      /\ ret.q.Fields = [k \in 1..nf |-> FieldName(k)]
                      /\ ret.q.Aliases = [k \in 1..nf |-> FieldAlias(k)])
    /\ [][FieldThenAS
            => IF ~ AliasToken.peekQuoted /\ IsName(AliasToken.peeked)
               THEN /\ pc' = "doParse"
                    /\ p'.query.Fields = Append(p.query.Fields, TokenHere)
                    /\ p'.query.Aliases = Append(p.query.Aliases, AliasToken.peeked)
               ELSE /\ pc' = "parse"
                    /\ ~ scan'.err.nil
                    /\ p'.query.Aliases = p.query.Aliases]_vars


\* the token the step at the cursor reads: stepUpdateValue and stepInsertValues
\* read with peekQuotedString, the other steps with peek
TokenRead ==
    IF p.step \in {"stepUpdateValue", "stepInsertValues"}
    THEN peekQuotedString(p, FALSE).peeked
    ELSE TokenHere

HasSpace(token) == \E k \in 1..Len(token) : token[k] = " "

\* the token has the parentheses of a function call
HasCall(token) == \E k \in 1..Len(token) : token[k] = "("

\* C38: after every pop the offset of the scan is at the end of the statement
\* or at a byte that is not a space, the whole run of spaces between two tokens
\* being skipped; and a token that is not a quoted literal has no space in it,
\* but between the parentheses of a function call.
C38_SpacesSkipped ==
    /\ InParse => (p.i >= Len(p.sql) \/ At(p.sql, p.i) # " ")
    /\ (AtBoundary /\ p.i < Len(p.sql) /\ ~ QuotedHere /\ HasSpace(TokenRead))
         => HasCall(TokenRead)


\* a decimal number as it is written: an optional leading -, then digits with
\* at most one point among them, and one digit at least
IsDecimal(s) ==
    LET body == IF s # << >> /\ s[1] = "-" THEN Tail(s) ELSE s
    IN  /\ \A k \in 1..Len(body) : body[k] \in Digits \cup { "." }
        /\ \E k \in 1..Len(body) : body[k] \in Digits
        /\ Cardinality({ k \in 1..Len(body) : body[k] = "." }) <= 1

\* C39: the right-hand side of a condition of the WHERE clause is of kind
\* Number only if its token is a decimal number: an optional leading -, one
\* digit at least and one point at most; a lone - and a token with several
\* points are not numbers.
C39_NumberShape ==
    \A k \in 1..Len(p.query.Conditions) :
        p.query.Conditions[k].Operand2Type = OpNumber
            => IsDecimal(p.query.Conditions[k].Operand2)

=============================================================================
